---------------------------- MODULE Spec2Model ----------------------------
(***************************************************************************)
(* Model of the flood-risk scoring engine of h2oai-flood-prediction.       *)
(*                                                                         *)
(* calculate_risk_score (agents/mcp_unified_flood_server.py) is a          *)
(* stateless tool: every call takes a measurement and returns a result     *)
(* dictionary.  The model has two callers, each holding the measurement    *)
(* it passes and the dictionary it gets back.                              *)
(*                                                                         *)
(* Numbers.  Python floats are modelled as exact rationals [n, d] in       *)
(* lowest terms with d > 0; every arithmetic step of the code is one       *)
(* rational operation, so the model is the code computed without floating  *)
(* point rounding error.  A division by zero yields ZeroDivisionError,     *)
(* which calculate_risk_score turns into the result of its except branch.  *)
(* round(x, 1) rounds to the nearest tenth, a tie going to the even tenth  *)
(* (CPython decides a tie on the binary value of the float).  Arguments    *)
(* are finite numbers of float magnitude: an int beyond the float range    *)
(* (which `weather_alerts * 2.5` cannot convert) is outside the model.     *)
(*                                                                         *)
(* PredictorAgent (agents/predictor.py) forecasts one watershed at a time  *)
(* (_predict_watershed_conditions) and estimates the next critical period  *)
(* of a batch (_predict_next_critical_period).  A watershed is a dict: a   *)
(* function whose domain is the set of keys it holds.  math.exp is         *)
(* irrational; decay_factor tabulates it to four decimals for the          *)
(* horizons of the model, exactly 1 at horizon 0.  Time is counted in      *)
(* whole hours.  generate_forecast keeps its forecasts in                  *)
(* prediction_history.  Where the rounding of floats decides (readings a   *)
(* few floats away from the thresholds of the critical period), the        *)
(* critical period is also modelled in binary64 arithmetic.                *)
(*                                                                         *)
(* calculate_risk_level (data_sources.py) grades a gauge reading, and      *)
(* EmergencyResponderAgent (agents/emergency_responder.py) assesses the    *)
(* flash-flood risk of a batch and logs the alerts it sends in             *)
(* notification_history.                                                   *)
(***************************************************************************)
EXTENDS Integers, Sequences, FiniteSets, TLC

VARIABLES m, res, watershed, hours_ahead, now, pred, data, critical,
          forecast, prediction_history, wallclock, calls, gauge, gauge_risk,
          flash_data, flash, notification_history, sent, sends

\* the state of PredictorAgent.generate_forecast and its callers
agentVars == <<forecast, prediction_history, wallclock, calls>>

\* the arguments and results of calculate_risk_level
gaugeVars == <<gauge, gauge_risk>>

\* the arguments and results of _assess_flash_flood_risk
flashVars == <<flash_data, flash>>

\* the state of EmergencyResponderAgent.send_emergency_alert and its callers
alertVars == <<notification_history, sent, sends>>

vars == <<m, res, watershed, hours_ahead, now, pred, data, critical,
          agentVars, gaugeVars, flashVars, alertVars>>

(***************************************************************************)
(* Exact rational arithmetic standing for Python float arithmetic.         *)
(***************************************************************************)
RECURSIVE GCD(_, _)
GCD(a, b) == IF b = 0 THEN a ELSE GCD(b, a % b)

Abs(x) == IF x < 0 THEN -x ELSE x

LCM(a, b) == (a \div GCD(a, b)) * b

\* the rational n/d (d > 0) in lowest terms
Q(n, d) ==
    LET g == GCD(Abs(n), d) IN [n |-> n \div g, d |-> d \div g]

\* an integer as a rational
R(i) == [n |-> i, d |-> 1]

ZeroDivisionError == [n |-> 0, d |-> 0]

Raised(x) == x.d = 0

RAdd(x, y) ==
    LET l == LCM(x.d, y.d)
    IN  Q(x.n * (l \div x.d) + y.n * (l \div y.d), l)

RSub(x, y) ==
    LET l == LCM(x.d, y.d)
    IN  Q(x.n * (l \div x.d) - y.n * (l \div y.d), l)

RMul(x, y) ==
    LET g1 == GCD(Abs(x.n), y.d)
        g2 == GCD(Abs(y.n), x.d)
    IN  [n |-> (x.n \div g1) * (y.n \div g2), d |-> (x.d \div g2) * (y.d \div g1)]

\* Python's x / y on floats
TrueDiv(x, y) ==
    IF y.n = 0 THEN ZeroDivisionError
    ELSE IF y.n > 0 THEN RMul(x, [n |-> y.d, d |-> y.n])
    ELSE RMul(x, [n |-> -y.d, d |-> -y.n])

RLt(x, y) ==
    LET l == LCM(x.d, y.d)
    IN  x.n * (l \div x.d) < y.n * (l \div y.d)

RLe(x, y) == ~RLt(y, x)

RGt(x, y) == RLt(y, x)

RGe(x, y) == ~RLt(x, y)

\* Python's min(a, b): a unless b < a
Min(a, b) == IF RLt(b, a) THEN b ELSE a

\* Python's max(a, b): a unless b > a
Max(a, b) == IF RGt(b, a) THEN b ELSE a

\* Python's f"{x:.0f}": the nearest integer, a tie going to the even one
Round0(x) ==
    LET f == x.n \div x.d
        r == x.n % x.d
    IN  IF 2 * r < x.d THEN f
        ELSE IF 2 * r > x.d THEN f + 1
        ELSE IF f % 2 = 0 THEN f ELSE f + 1

\* Python's round(x, 1)
Round1(x) ==
    LET t == RMul(x, R(10))
        f == t.n \div t.d
        r == t.n % t.d
        k == IF 2 * r < t.d THEN f
             ELSE IF 2 * r > t.d THEN f + 1
             ELSE IF f % 2 = 0 THEN f ELSE f + 1
    IN  Q(k, 10)

(***************************************************************************)
(* calculate_risk_score, one definition per block of the function.  mm is  *)
(* the measurement: the keyword arguments of the call.                     *)
(***************************************************************************)

\* LIKELIHOOD FACTORS

total_rainfall(mm) ==
    RAdd(mm.current_rainfall_mm, RMul(mm.forecast_rainfall_mm, Q(8, 10)))

\* faulty variant: the linear segment with slope 1/2.5 and no cap
rainfall_score_steep(mm) ==
    LET total == total_rainfall(mm)
    IN  IF RGe(total, R(100)) THEN R(20)
        ELSE IF RGe(total, R(75)) THEN R(16)
        ELSE IF RGe(total, R(50)) THEN R(12)
        ELSE IF RGe(total, R(25)) THEN R(8)
        ELSE TrueDiv(total, Q(25, 10))

rainfall_score(mm) ==
    LET total == total_rainfall(mm)
    IN  IF RGe(total, R(100)) THEN R(20)
        ELSE IF RGe(total, R(75)) THEN R(16)
        ELSE IF RGe(total, R(50)) THEN R(12)
        ELSE IF RGe(total, R(25)) THEN R(8)
        ELSE Min(R(8), TrueDiv(total, Q(3125, 1000)))

\* faulty variant: the guard without the test of the denominator
stage_guard_river_only(mm) == RGt(mm.river_stage_ft, R(0))

\* the condition under which the stage ratio is computed
stage_guard(mm) ==
    RGt(mm.river_stage_ft, R(0)) /\ RGt(mm.flood_stage_ft, R(0))

\* faulty variant: the breakpoints belong to the lower bucket
stage_score_strict(mm) ==
    IF stage_guard(mm)
    THEN LET stage_ratio == TrueDiv(mm.river_stage_ft, mm.flood_stage_ft)
         IN  IF Raised(stage_ratio) THEN ZeroDivisionError
             ELSE IF RGt(stage_ratio, R(1)) THEN R(15)
             ELSE IF RGt(stage_ratio, Q(9, 10)) THEN R(12)
             ELSE IF RGt(stage_ratio, Q(8, 10)) THEN R(10)
             ELSE IF RGt(stage_ratio, Q(7, 10)) THEN R(7)
             ELSE Min(R(7), RMul(stage_ratio, R(10)))
    ELSE R(0)

stage_score(mm) ==
    IF stage_guard(mm)
    THEN LET stage_ratio == TrueDiv(mm.river_stage_ft, mm.flood_stage_ft)
         IN  IF Raised(stage_ratio) THEN ZeroDivisionError
             ELSE IF RGe(stage_ratio, R(1)) THEN R(15)
             ELSE IF RGe(stage_ratio, Q(9, 10)) THEN R(12)
             ELSE IF RGe(stage_ratio, Q(8, 10)) THEN R(10)
             ELSE IF RGe(stage_ratio, Q(7, 10)) THEN R(7)
             ELSE Min(R(7), RMul(stage_ratio, R(10)))
    ELSE R(0)

flow_score(mm) ==
    IF RGt(mm.usgs_flow_cfs, R(0))
    THEN IF RGe(mm.usgs_flow_cfs, R(50000)) THEN R(10)
         ELSE IF RGe(mm.usgs_flow_cfs, R(20000)) THEN R(8)
         ELSE IF RGe(mm.usgs_flow_cfs, R(10000)) THEN R(6)
         ELSE Min(R(6), RMul(TrueDiv(mm.usgs_flow_cfs, R(10000)), R(6)))
    ELSE R(0)

\* faulty variant: no cap at 5
alert_score_uncapped(mm) == RMul(mm.weather_alerts, Q(25, 10))

alert_score(mm) == Min(R(5), RMul(mm.weather_alerts, Q(25, 10)))

\* SEVERITY FACTORS

\* faulty variant: the breakpoints belong to the lower-elevation bucket
elevation_score_inclusive(mm) ==
    IF RLe(mm.elevation_m, R(50)) THEN R(15)
    ELSE IF RLe(mm.elevation_m, R(100)) THEN R(12)
    ELSE IF RLe(mm.elevation_m, R(150)) THEN R(8)
    ELSE IF RLe(mm.elevation_m, R(200)) THEN R(5)
    ELSE Max(R(0), RSub(R(15), TrueDiv(mm.elevation_m, R(40))))

elevation_score(mm) ==
    IF RLt(mm.elevation_m, R(50)) THEN R(15)
    ELSE IF RLt(mm.elevation_m, R(100)) THEN R(12)
    ELSE IF RLt(mm.elevation_m, R(150)) THEN R(8)
    ELSE IF RLt(mm.elevation_m, R(200)) THEN R(5)
    ELSE Max(R(0), RSub(R(15), TrueDiv(mm.elevation_m, R(40))))

proximity_score(mm) ==
    IF RLt(mm.distance_to_water_km, Q(5, 10)) THEN R(15)
    ELSE IF RLt(mm.distance_to_water_km, R(1)) THEN R(12)
    ELSE IF RLt(mm.distance_to_water_km, R(2)) THEN R(9)
    ELSE IF RLt(mm.distance_to_water_km, R(5)) THEN R(5)
    ELSE Max(R(0), RSub(R(15), RMul(mm.distance_to_water_km, Q(15, 10))))

\* faulty variant: one point per event instead of two
historical_score_unscaled(mm) == Min(R(10), mm.historical_events)

historical_score(mm) == Min(R(10), RMul(mm.historical_events, R(2)))

population_score(mm) ==
    IF RGe(mm.population_density, R(3000)) THEN R(10)
    ELSE IF RGe(mm.population_density, R(2000)) THEN R(8)
    ELSE IF RGe(mm.population_density, R(1000)) THEN R(5)
    ELSE Min(R(5), TrueDiv(mm.population_density, R(200)))

\* faulty variant: the four likelihood sub-scores averaged instead of summed
likelihood_score_mean(mm) ==
    TrueDiv(RAdd(RAdd(RAdd(rainfall_score(mm), stage_score(mm)), flow_score(mm)),
                 alert_score(mm)), R(4))

likelihood_score(mm) ==
    RAdd(RAdd(RAdd(rainfall_score(mm), stage_score(mm)), flow_score(mm)),
         alert_score(mm))

severity_score(mm) ==
    RAdd(RAdd(RAdd(elevation_score(mm), proximity_score(mm)), historical_score(mm)),
         population_score(mm))

\* TOTAL RISK SCORE
total_score(mm) == RAdd(likelihood_score(mm), severity_score(mm))

\* faulty variant: a total of exactly 80 is not yet Extreme
risk_level_strict(total) ==
    IF RGt(total, R(80)) THEN "Extreme"
    ELSE IF RGe(total, R(65)) THEN "Critical"
    ELSE IF RGe(total, R(50)) THEN "High"
    ELSE IF RGe(total, R(35)) THEN "Moderate"
    ELSE IF RGe(total, R(20)) THEN "Low"
    ELSE "Very Low"

\* Risk level classification of a total score
risk_level(total) ==
    IF RGe(total, R(80)) THEN "Extreme"
    ELSE IF RGe(total, R(65)) THEN "Critical"
    ELSE IF RGe(total, R(50)) THEN "High"
    ELSE IF RGe(total, R(35)) THEN "Moderate"
    ELSE IF RGe(total, R(20)) THEN "Low"
    ELSE "Very Low"

risk_color(level) ==
    CASE level = "Extreme" -> "#8B0000"
      [] level = "Critical" -> "#FF0000"
      [] level = "High" -> "#FF8C00"
      [] level = "Moderate" -> "#FFD700"
      [] level = "Low" -> "#90EE90"
      [] OTHER -> "#00FF00"

\* faulty variant: the rainfall threshold is inclusive
immediate_risk_at_50(mm) ==
    IF RGe(mm.current_rainfall_mm, R(50)) THEN "High"
    ELSE IF RGt(mm.weather_alerts, R(0)) THEN "High"
    ELSE IF RGt(mm.river_stage_ft, R(0)) /\ RGt(mm.flood_stage_ft, R(0))
    THEN LET ratio == TrueDiv(mm.river_stage_ft, mm.flood_stage_ft)
         IN  IF Raised(ratio) THEN "ZeroDivisionError"
             ELSE IF RGe(ratio, Q(9, 10)) THEN "High" ELSE "Low"
    ELSE "Low"

\* faulty variant: an Extreme composite score raises the flag too
immediate_risk_with_score(mm) ==
    IF RGt(mm.current_rainfall_mm, R(50)) THEN "High"
    ELSE IF RGt(mm.weather_alerts, R(0)) THEN "High"
    ELSE IF RGt(mm.river_stage_ft, R(0)) /\ RGt(mm.flood_stage_ft, R(0))
    THEN LET ratio == TrueDiv(mm.river_stage_ft, mm.flood_stage_ft)
         IN  IF Raised(ratio) THEN "ZeroDivisionError"
             ELSE IF RGe(ratio, Q(9, 10)) THEN "High"
             ELSE IF risk_level(total_score(mm)) = "Extreme" THEN "High"
             ELSE "Low"
    ELSE IF risk_level(total_score(mm)) = "Extreme" THEN "High"
    ELSE "Low"

\* Immediate risk assessment; `or` and `and` evaluate left to right and stop
\* at the first operand that decides them
immediate_risk(mm) ==
    IF RGt(mm.current_rainfall_mm, R(50)) THEN "High"
    ELSE IF RGt(mm.weather_alerts, R(0)) THEN "High"
    ELSE IF RGt(mm.river_stage_ft, R(0)) /\ RGt(mm.flood_stage_ft, R(0))
    THEN LET ratio == TrueDiv(mm.river_stage_ft, mm.flood_stage_ft)
         IN  IF Raised(ratio) THEN "ZeroDivisionError"
             ELSE IF RGe(ratio, Q(9, 10)) THEN "High" ELSE "Low"
    ELSE "Low"

\* stage_info.percent_of_flood_stage
percent_of_flood_stage(mm) ==
    IF RGt(mm.flood_stage_ft, R(0))
    THEN LET ratio == TrueDiv(mm.river_stage_ft, mm.flood_stage_ft)
         IN  IF Raised(ratio) THEN ZeroDivisionError
             ELSE Round1(RMul(ratio, R(100)))
    ELSE R(0)

\* the dictionary the call returns: the try block's, or the except block's
\* when a step of the try block raised
calculate_risk_score(mm) ==
    IF \/ Raised(stage_score(mm))
       \/ immediate_risk(mm) = "ZeroDivisionError"
       \/ Raised(percent_of_flood_stage(mm))
    THEN [status |-> "error", agent |-> "Risk Analyzer",
          message |-> "float division by zero"]
    ELSE [status |-> "success",
          agent |-> "Risk Analyzer",
          overall_risk_score |-> Round1(total_score(mm)),
          risk_level |-> risk_level(total_score(mm)),
          risk_color |-> risk_color(risk_level(total_score(mm))),
          immediate_risk |-> immediate_risk(mm),
          component_scores |->
            [likelihood |->
               [total |-> Round1(likelihood_score(mm)),
                rainfall |-> Round1(rainfall_score(mm)),
                river_stage |-> Round1(stage_score(mm)),
                flow_rate |-> Round1(flow_score(mm)),
                alerts |-> Round1(alert_score(mm))],
             severity |->
               [total |-> Round1(severity_score(mm)),
                elevation |-> Round1(elevation_score(mm)),
                proximity |-> Round1(proximity_score(mm)),
                historical |-> Round1(historical_score(mm)),
                population |-> Round1(population_score(mm))]],
          stage_info |->
            [current_stage_ft |-> mm.river_stage_ft,
             flood_stage_ft |-> mm.flood_stage_ft,
             percent_of_flood_stage |-> percent_of_flood_stage(mm)]]

(***************************************************************************)
(* The measurements the callers pass.                                      *)
(***************************************************************************)
MaxRainSteps == 4
MaxElevSteps == 4
MaxEvents == 6
MaxAlerts == 3

Fields ==
    {"current_rainfall_mm", "forecast_rainfall_mm", "elevation_m",
     "distance_to_water_km", "population_density", "historical_events",
     "usgs_flow_cfs", "river_stage_ft", "flood_stage_ft", "weather_alerts"}

\* the fields the immediate-risk expression does not mention
ContextFields ==
    {"forecast_rainfall_mm", "elevation_m", "distance_to_water_km",
     "population_density", "historical_events", "usgs_flow_cfs"}

Values(f) ==
    CASE f = "current_rainfall_mm" ->
           {R(25 * k) : k \in 0..MaxRainSteps} \cup {Q(3, 10), R(10), R(24), R(51)}
      [] f = "forecast_rainfall_mm" ->
           {R(0), R(5), R(30), Q(125, 4), R(125)}
      [] f = "elevation_m" ->
           {R(50 * k) : k \in 0..MaxElevSteps}
             \cup {R(30), R(49), R(99), R(149), R(199), R(400), R(600), R(800)}
      [] f = "distance_to_water_km" ->
           {R(0), Q(3, 10), Q(5, 10), Q(9, 10), R(1), Q(19, 10), R(2),
            Q(49, 10), R(5), R(8), R(10), R(12)}
      [] f = "population_density" ->
           {R(0), R(500), R(999), R(1000), R(1999), R(2000), R(3000), R(3500)}
      [] f = "historical_events" -> {R(k) : k \in 0..MaxEvents}
      [] f = "usgs_flow_cfs" ->
           {R(0), R(5000), R(10000), R(20000), R(50000), R(60000)}
      [] f = "river_stage_ft" ->
           {R(0), R(10), R(13), R(14), R(16), R(17), R(18), R(20), R(25)}
      [] f = "flood_stage_ft" -> {R(0), R(20), R(25)}
      [] OTHER -> {R(k) : k \in 0..MaxAlerts}

Measurement(cr, fr, el, di, po, hi, fl, ri, fs, wa) ==
    [current_rainfall_mm |-> cr, forecast_rainfall_mm |-> fr, elevation_m |-> el,
     distance_to_water_km |-> di, population_density |-> po,
     historical_events |-> hi, usgs_flow_cfs |-> fl, river_stage_ft |-> ri,
     flood_stage_ft |-> fs, weather_alerts |-> wa]

\* faulty variant: every default 0 except elevation_m and flood_stage_ft
Defaults_zeroed ==
    Measurement(R(0), R(0), R(100), R(0), R(0), R(0), R(0), R(0), R(20), R(0))

\* the keyword defaults of the signature
Defaults ==
    Measurement(R(0), R(0), R(100), R(5), R(1000), R(0), R(0), R(0), R(20), R(0))

\* the parameters of a call made with the keyword arguments kwargs: an
\* argument that is not passed takes the default of the signature
Bind(kwargs) ==
    [f \in Fields |-> IF f \in DOMAIN kwargs THEN kwargs[f] ELSE Defaults[f]]

Zero ==
    Measurement(R(0), R(0), R(0), R(0), R(0), R(0), R(0), R(0), R(0), R(0))

Saturated ==
    Measurement(R(100), R(0), R(30), Q(3, 10), R(3500), R(5), R(60000), R(20),
                R(20), R(2))

Middling ==
    Measurement(R(20), R(5), R(120), Q(15, 10), R(1500), R(2), R(15000), R(15),
                R(20), R(0))

\* every context field at its highest score, no immediate-risk condition met
Severe ==
    Measurement(R(50), R(125), R(0), R(0), R(3500), R(6), R(60000), R(17),
                R(20), R(0))

Bases == {Defaults, Zero, Saturated, Middling}

Contexts == Bases \cup {Severe}

\* mm with its context fields taken from ctx
WithContext(mm, ctx) ==
    [f \in Fields |-> IF f \in ContextFields THEN ctx[f] ELSE mm[f]]

\* the measurements that differ from mm in at most one field, or in the context
Variants(mm) ==
    UNION {{[mm EXCEPT ![f] = v] : v \in Values(f)} : f \in Fields}
      \cup {WithContext(mm, ctx) : ctx \in Contexts}

Measurements == UNION {Variants(b) : b \in Bases}

(***************************************************************************)
(* data_sources.calculate_risk_level: the risk of a gauge reading.         *)
(***************************************************************************)
\* Python's truth value of an optional number: None and 0 are false
Truthy(x) == "n" \in DOMAIN x /\ x.n # 0

\* calculate_risk_level(streamflow_cfs, flood_stage_cfs): the tuple
\* (risk_level, risk_score)
calculate_risk_level(streamflow_cfs, flood_stage_cfs) ==
    LET known == Truthy(flood_stage_cfs)
        score ==
            IF known /\ RGe(streamflow_cfs, flood_stage_cfs)
            THEN Min(R(10), RAdd(R(7), RMul(RSub(TrueDiv(streamflow_cfs,
                                                          flood_stage_cfs),
                                                  R(1)), R(3))))
            ELSE IF known /\ RGe(streamflow_cfs, RMul(flood_stage_cfs, Q(8, 10)))
            THEN RAdd(R(4), RMul(RSub(TrueDiv(streamflow_cfs, flood_stage_cfs),
                                      Q(8, 10)), R(15)))
            ELSE IF RGt(streamflow_cfs, R(1000))
            THEN Min(R(7), RAdd(R(3), RMul(TrueDiv(streamflow_cfs, R(2000)), R(2))))
            ELSE IF RGt(streamflow_cfs, R(500))
            THEN RAdd(R(2), TrueDiv(streamflow_cfs, R(500)))
            ELSE Min(R(3), Max(Q(5, 10), TrueDiv(streamflow_cfs, R(200))))
        risk ==
            IF known /\ RGe(streamflow_cfs, flood_stage_cfs) THEN "High"
            ELSE IF known /\ RGe(streamflow_cfs, RMul(flood_stage_cfs, Q(8, 10)))
            THEN "Moderate"
            ELSE IF RGt(streamflow_cfs, R(1000)) THEN "Moderate"
            ELSE "Low"
    IN  <<risk, Round1(score)>>

(***************************************************************************)
(* PredictorAgent: the forecast of one watershed.                          *)
(***************************************************************************)
\* Python's None
None == [none |-> TRUE]

\* the empty dict the except branches return
EmptyDict == [empty |-> TRUE]

\* Python's d.get(key, default)
Get(d, key, default) == IF key \in DOMAIN d THEN d[key] ELSE default

\* whether the operators >, *, / accept x
IsNumber(x) == DOMAIN x = {"n", "d"}

\* math.exp(-hours_ahead / 24), to four decimals
decay_factor(h) ==
    CASE h = 0 -> R(1)
      [] h = 12 -> Q(6065, 10000)
      [] h = 24 -> Q(3679, 10000)
      [] h = 25 -> Q(3529, 10000)
      [] h = 48 -> Q(1353, 10000)
      [] h = 72 -> Q(498, 10000)

\* faulty variant: the trend extrapolated one hour further
predicted_flow_next_hour(current_flow, trend_rate, h) ==
    RAdd(current_flow,
         RMul(RSub(RAdd(current_flow, RMul(trend_rate, R(h + 1))), current_flow),
              decay_factor(h)))

\* faulty variant: the decay applied to the whole flow, not to its change
predicted_flow_decay_all(current_flow, trend_rate, h) ==
    RMul(RAdd(current_flow, RMul(trend_rate, R(h))), decay_factor(h))

\* the linear extrapolation of the flow, its change weakened by the decay
predicted_flow(current_flow, trend_rate, h) ==
    RAdd(current_flow,
         RMul(RSub(RAdd(current_flow, RMul(trend_rate, R(h))), current_flow),
              decay_factor(h)))

\* faulty variant: data with no usable last_updated counted as fresh
get_data_age_fresh(w, clock) ==
    LET last_updated == Get(w, "last_updated", None)
    IN  IF last_updated = None \/ last_updated.kind # "aware" THEN R(0)
        ELSE R(clock - last_updated.hour)

\* _get_data_age at clock reading `clock`: the hours since last_updated, or
\* 24 when it is missing, empty, not an ISO timestamp, or an ISO timestamp
\* without offset (which cannot be subtracted from the aware clock reading)
get_data_age(w, clock) ==
    LET last_updated == Get(w, "last_updated", None)
    IN  IF last_updated = None \/ last_updated.kind = "empty" THEN R(24)
        ELSE IF last_updated.kind = "malformed" THEN R(24)
        ELSE IF last_updated.kind = "naive" THEN R(24)
        ELSE R(clock - last_updated.hour)

assess_trend_stability(w) == Q(8, 10)

risk_score_to_level(risk_score) ==
    IF RGe(risk_score, R(8)) THEN "CRITICAL"
    ELSE IF RGe(risk_score, R(6)) THEN "HIGH"
    ELSE IF RGe(risk_score, R(4)) THEN "MODERATE"
    ELSE "LOW"

\* faulty variant: the horizon penalty applied to short horizons
confidence_short_penalty(data_age, trend_stability, h) ==
    LET c0 == Q(9, 10)
        c1 == IF RGt(data_age, R(2)) THEN RMul(c0, Q(8, 10)) ELSE c0
        c2 == IF RLt(trend_stability, Q(7, 10)) THEN RMul(c1, Q(9, 10)) ELSE c1
    IN  IF h < 24 THEN RMul(c2, Q(8, 10)) ELSE c2

\* the confidence of a forecast
confidence(data_age, trend_stability, h) ==
    LET c0 == Q(9, 10)
        c1 == IF RGt(data_age, R(2)) THEN RMul(c0, Q(8, 10)) ELSE c0
        c2 == IF RLt(trend_stability, Q(7, 10)) THEN RMul(c1, Q(9, 10)) ELSE c1
    IN  IF h > 24 THEN RMul(c2, Q(8, 10)) ELSE c2

\* faulty variant: a missing flood stage replaced by the predicted flow itself
flood_stage_at_flow(w, flow) == Get(w, "flood_stage_cfs", flow)

\* the flood stage of the watershed, or twice the predicted flow without one
flood_stage(w, flow) == Get(w, "flood_stage_cfs", RMul(flow, R(2)))

\* _predict_watershed_conditions(watershed, hours_ahead) at clock reading
\* `clock`
predict_watershed_conditions(w, h, clock) ==
    LET current_flow == Get(w, "current_streamflow_cfs", R(0))
        current_risk == Get(w, "risk_score", R(0))
        trend_rate == Get(w, "trend_rate_cfs_per_hour", R(0))
        flow == predicted_flow(current_flow, trend_rate, h)
        stage == flood_stage(w, flow)
        flow_ratio == IF RGt(stage, R(0)) THEN TrueDiv(flow, stage)
                      ELSE R(0)
        predicted_risk ==
            Min(R(10), RAdd(RMul(flow_ratio, R(8)), RMul(current_risk, Q(2, 10))))
        data_age == get_data_age(w, clock)
        trend_stability == assess_trend_stability(w)
    IN  IF ~IsNumber(stage) THEN EmptyDict
        ELSE [watershed_name |-> Get(w, "name", "Unknown"),
              watershed_id |-> Get(w, "id", None),
              current_conditions |->
                  [flow_cfs |-> current_flow, risk_score |-> current_risk],
              predicted_conditions |->
                  [flow_cfs |-> flow, risk_score |-> predicted_risk,
                   risk_level |-> risk_score_to_level(predicted_risk)],
              confidence |-> confidence(data_age, trend_stability, h),
              prediction_factors |->
                  [trend_rate |-> trend_rate, data_age_hours |-> data_age,
                   trend_stability |-> trend_stability]]

(***************************************************************************)
(* PredictorAgent: the next critical period of a batch of watersheds.      *)
(***************************************************************************)
\* faulty variant: a rising trend is enough
qualifies_trend_only(w) ==
    RGt(Get(w, "trend_rate_cfs_per_hour", R(0)), R(50))

\* the test a watershed passes to enter critical_predictions
qualifies(w) ==
    /\ RGt(Get(w, "trend_rate_cfs_per_hour", R(0)), R(50))
    /\ RGt(Get(w, "risk_score", R(0)), R(5))

hours_to_critical(w) ==
    LET trend_rate == Get(w, "trend_rate_cfs_per_hour", R(0))
        current_risk == Get(w, "risk_score", R(0))
    IN  Max(R(1), TrueDiv(RSub(Q(85, 10), current_risk), TrueDiv(trend_rate, R(100))))

\* the entry appended to critical_predictions for a qualifying watershed
critical_prediction(w) ==
    [watershed |-> Get(w, "name", "Unknown"),
     hours_to_critical |-> hours_to_critical(w),
     predicted_severity |->
        IF RGt(Get(w, "trend_rate_cfs_per_hour", R(0)), R(100)) THEN "high"
        ELSE "moderate"]

\* faulty variant: the latest critical period instead of the earliest
earliest_latest(critical_predictions) ==
    LET i == CHOOSE i \in 1..Len(critical_predictions) :
                 /\ \A j \in 1..Len(critical_predictions) :
                       RGe(critical_predictions[i].hours_to_critical,
                           critical_predictions[j].hours_to_critical)
                 /\ \A j \in 1..(i - 1) :
                       critical_predictions[j].hours_to_critical
                         # critical_predictions[i].hours_to_critical
    IN  critical_predictions[i]

\* min(critical_predictions, key=hours_to_critical): the first entry among
\* those with the least hours_to_critical
earliest(critical_predictions) ==
    LET i == CHOOSE i \in 1..Len(critical_predictions) :
                 /\ \A j \in 1..Len(critical_predictions) :
                       RLe(critical_predictions[i].hours_to_critical,
                           critical_predictions[j].hours_to_critical)
                 /\ \A j \in 1..(i - 1) :
                       critical_predictions[j].hours_to_critical
                         # critical_predictions[i].hours_to_critical
    IN  critical_predictions[i]

\* the text f"Next {hours:.0f} hours" or f"Next {hours/24:.1f} days", as the
\* tuple of its parts
timeframe(hours) ==
    IF RLe(hours, R(6)) THEN <<"Next", R(Round0(hours)), "hours">>
    ELSE IF RLe(hours, R(24)) THEN <<"Next", R(Round0(hours)), "hours">>
    ELSE <<"Next", Round1(TrueDiv(hours, R(24))), "days">>

\* _predict_next_critical_period(data)
predict_next_critical_period(d) ==
    LET watersheds == Get(d, "watersheds", <<>>)
        qualifying == SelectSeq(watersheds, qualifies)
        critical_predictions ==
            [i \in 1..Len(qualifying) |-> critical_prediction(qualifying[i])]
    IN  IF Len(watersheds) = 0 THEN None
        ELSE IF Len(critical_predictions) = 0 THEN None
        ELSE LET first == earliest(critical_predictions)
                 hours == first.hours_to_critical
             IN  IF RGt(hours, R(72)) THEN None
                 ELSE [timeframe |-> timeframe(hours),
                       confidence |-> Max(R(60), RSub(R(95), RMul(hours, R(2)))),
                       severity |-> first.predicted_severity,
                       primary_watershed |-> first.watershed]

(***************************************************************************)
(* The next critical period in the arithmetic of Python's float: the same  *)
(* statements as above, each operation rounded to binary64.                *)
(*                                                                         *)
(* A significand is a natural of up to 120 bits, held as eight limbs of 15 *)
(* bits, lowest first.  A float is (-1)^neg * m * 2^e with m of exactly 53 *)
(* bits, or m = 0.  Subnormals, infinities and NaN are out of the range of *)
(* the values here.                                                        *)
(***************************************************************************)
Limb == 32768

Precision == 53

\* the limbs of a natural given limb by limb, each worked out once
Big(limb) ==
    <<limb[1], limb[2], limb[3], limb[4], limb[5], limb[6], limb[7], limb[8]>>

\* the natural n < 2^31
BigOf(n) == <<n % Limb, (n \div Limb) % Limb, n \div (Limb * Limb), 0, 0, 0, 0, 0>>

BigLt(a, b) ==
    \E i \in 1..8 : a[i] < b[i] /\ \A j \in (i + 1)..8 : a[j] = b[j]

\* the carry into limb i of a + b: a lower limb overflows and every limb
\* between passes the carry on
BigCarry(a, b, i) ==
    IF \E j \in 1..(i - 1) :
          /\ a[j] + b[j] >= Limb
          /\ \A k \in (j + 1)..(i - 1) : a[k] + b[k] = Limb - 1
    THEN 1 ELSE 0

BigAdd(a, b) == Big([i \in 1..8 |-> (a[i] + b[i] + BigCarry(a, b, i)) % Limb])

\* the borrow from limb i of a - b: a lower limb falls short and every limb
\* between passes the borrow on
BigBorrow(a, b, i) ==
    IF \E j \in 1..(i - 1) :
          /\ a[j] < b[j]
          /\ \A k \in (j + 1)..(i - 1) : a[k] = b[k]
    THEN 1 ELSE 0

\* a - b, for a >= b
BigSub(a, b) ==
    Big([i \in 1..8 |-> (a[i] - b[i] - BigBorrow(a, b, i) + Limb) % Limb])

\* a * 2^k, the result below 2^120
BigShl(a, k) ==
    LET s == k \div 15
        b == k % 15
        limb(j) == IF j \in 1..8 THEN a[j] ELSE 0
    IN  Big([i \in 1..8 |->
                ((limb(i - s) * 2^b) % Limb) + (limb(i - s - 1) \div 2^(15 - b))])

\* a \div 2^k
BigShr(a, k) ==
    LET s == k \div 15
        b == k % 15
        limb(j) == IF j \in 1..8 THEN a[j] ELSE 0
    IN  Big([i \in 1..8 |->
                (limb(i + s) \div 2^b) + ((limb(i + s + 1) % 2^b) * 2^(15 - b))])

\* the number of bits of a
BigBits(a) ==
    LET used == {i \in 1..8 : a[i] # 0}
    IN  IF used = {} THEN 0
        ELSE LET top == CHOOSE i \in used : \A j \in used : j <= i
             IN  15 * (top - 1) + Cardinality({k \in 0..14 : 2^k <= a[top]})

\* x * 2^e, below 2^31, to the nearest integer, ties to even: the digits a
\* format spec prints
BigRound0(x, e) ==
    LET int(a) == a[1] + Limb * a[2] + Limb * Limb * a[3]
    IN  IF e >= 0 THEN int(BigShl(x, e))
        ELSE IF -e > BigBits(x) + 1 THEN 0
        ELSE LET q == BigShr(x, -e)
                 rem == BigSub(x, BigShl(q, -e))
                 half == BigShl(BigOf(1), -e - 1)
             IN  IF BigLt(half, rem) \/ (rem = half /\ q[1] % 2 = 1)
                 THEN int(q) + 1
                 ELSE int(q)

FZero == [neg |-> FALSE, m |-> BigOf(0), e |-> 0]

\* x * 2^e rounded to nearest, ties to even; sticky says that bits below x
\* were lost
FRound(neg, x, e, sticky) ==
    LET n == BigBits(x)
    IN  IF n = 0 THEN FZero
        ELSE IF n <= Precision
        THEN [neg |-> neg, m |-> BigShl(x, Precision - n), e |-> e - (Precision - n)]
        ELSE LET d == n - Precision
                 q == BigShr(x, d)
                 rem == BigSub(x, BigShl(q, d))
                 half == BigShl(BigOf(1), d - 1)
                 up == \/ BigLt(half, rem)
                       \/ rem = half /\ (sticky \/ q[1] % 2 = 1)
                 r == IF up THEN BigAdd(q, BigOf(1)) ELSE q
             IN  IF BigBits(r) > Precision
                 THEN [neg |-> neg, m |-> BigShr(r, 1), e |-> e + d + 1]
                 ELSE [neg |-> neg, m |-> r, e |-> e + d]

\* the float of the integer n, 0 <= n < 2^31, times 2^e
FOf(n, e) == FRound(FALSE, BigOf(n), e, FALSE)

\* the k-th float above a positive x, below it for a negative k
RECURSIVE FStep(_, _)
FStep(x, k) ==
    IF k = 0 THEN x
    ELSE IF k > 0
    THEN LET y == FStep(x, k - 1)
             r == BigAdd(y.m, BigOf(1))
         IN  IF BigBits(r) > Precision
             THEN [y EXCEPT !.m = BigShr(r, 1), !.e = @ + 1]
             ELSE [y EXCEPT !.m = r]
    ELSE LET y == FStep(x, k + 1)
             r == BigSub(y.m, BigOf(1))
         IN  IF BigBits(r) < Precision
             THEN [y EXCEPT !.m = BigSub(BigShl(y.m, 1), BigOf(1)), !.e = @ - 1]
             ELSE [y EXCEPT !.m = r]

\* x < y
FLt(x, y) ==
    LET below(a, b) ==
            /\ b.m # BigOf(0)
            /\ \/ a.m = BigOf(0)
               \/ a.e < b.e
               \/ a.e = b.e /\ BigLt(a.m, b.m)
    IN  IF x.m = BigOf(0) /\ y.m = BigOf(0) THEN FALSE
        ELSE IF x.neg /\ ~y.neg THEN TRUE
        ELSE IF ~x.neg /\ y.neg THEN FALSE
        ELSE IF x.neg THEN below(y, x)
        ELSE below(x, y)

\* x - y for x >= 0 and y >= 0, their exponents at most 60 apart
FSub(x, y) ==
    IF y.m = BigOf(0) THEN x
    ELSE IF x.m = BigOf(0) THEN [y EXCEPT !.neg = TRUE]
    ELSE LET e == IF x.e < y.e THEN x.e ELSE y.e
             a == BigShl(x.m, x.e - e)
             b == BigShl(y.m, y.e - e)
         IN  IF BigLt(a, b) THEN FRound(TRUE, BigSub(b, a), e, FALSE)
             ELSE FRound(FALSE, BigSub(a, b), e, FALSE)

\* <<quotient, remainder>> of the long division by d after k >= 1 more
\* bits of the quotient, half of them at a time
RECURSIVE FDivide(_, _, _)
FDivide(qr, d, k) ==
    IF k = 1
    THEN LET q2 == BigShl(qr[1], 1)
             r2 == BigShl(qr[2], 1)
         IN  IF BigLt(r2, d) THEN <<q2, r2>>
             ELSE <<[q2 EXCEPT ![1] = @ + 1], BigSub(r2, d)>>
    ELSE LET half == FDivide(qr, d, k \div 2)
         IN  IF half = << >> THEN half ELSE FDivide(half, d, k - k \div 2)

\* x / y, y not 0
FDiv(x, y) ==
    IF x.m = BigOf(0) THEN FZero
    ELSE LET first == IF BigLt(x.m, y.m) THEN <<BigOf(0), x.m>>
                      ELSE <<BigOf(1), BigSub(x.m, y.m)>>
             qr == FDivide(first, y.m, 56)
         IN  FRound(x.neg # y.neg, qr[1], x.e - y.e - 56, qr[2] # BigOf(0))

\* x * 2
FTwice(x) == IF x.m = BigOf(0) THEN x ELSE [x EXCEPT !.e = @ + 1]

\* the test a watershed passes to enter critical_predictions
qualifies_binary64(w) ==
    /\ FLt(FOf(50, 0), Get(w, "trend_rate_cfs_per_hour", FZero))
    /\ FLt(FOf(5, 0), Get(w, "risk_score", FZero))

\* faulty variant: the estimate without its floor of one hour
hours_to_critical_unclamped(w) ==
    FDiv(FSub(FOf(17, -1), Get(w, "risk_score", FZero)),
         FDiv(Get(w, "trend_rate_cfs_per_hour", FZero), FOf(100, 0)))

\* max(1, (8.5 - current_risk) / (trend_rate / 100)); the quotient is bound
\* once, as the one float the division returns
hours_to_critical_binary64(w) ==
    LET trend_rate == Get(w, "trend_rate_cfs_per_hour", FZero)
        current_risk == Get(w, "risk_score", FZero)
        max(hours) == IF FLt(FOf(1, 0), hours) THEN hours ELSE FOf(1, 0)
    IN  CHOOSE hours \in
            {max(estimate) :
                estimate \in {FDiv(FSub(FOf(17, -1), current_risk),
                                   FDiv(trend_rate, FOf(100, 0)))}} : TRUE

\* _predict_next_critical_period(data); the timeframe is the tuple of the
\* parts of f"Next {hours:.0f} hours" or f"Next {hours/24:.1f} days", the
\* days counted in tenths; the earliest prediction and hours / 24 are bound
\* once, as the values the code holds in first and passes to the format
predict_next_critical_period_binary64(d) ==
    LET watersheds == Get(d, "watersheds", <<>>)
        qualifying == SelectSeq(watersheds, qualifies_binary64)
        critical_predictions ==
            [i \in 1..Len(qualifying) |->
                [watershed |-> Get(qualifying[i], "name", "Unknown"),
                 hours_to_critical |-> hours_to_critical_binary64(qualifying[i]),
                 predicted_severity |->
                    IF FLt(FOf(100, 0), qualifying[i].trend_rate_cfs_per_hour)
                    THEN "high" ELSE "moderate"]]
    IN  IF Len(watersheds) = 0 THEN None
        ELSE IF Len(critical_predictions) = 0 THEN None
        ELSE LET i == CHOOSE i \in 1..Len(critical_predictions) :
                         /\ \A j \in 1..Len(critical_predictions) :
                               ~FLt(critical_predictions[j].hours_to_critical,
                                    critical_predictions[i].hours_to_critical)
                         /\ \A j \in 1..(i - 1) :
                               FLt(critical_predictions[i].hours_to_critical,
                                   critical_predictions[j].hours_to_critical)
                 period(first) ==
                     LET hours == first.hours_to_critical
                         decreased == FSub(FOf(95, 0), FTwice(hours))
                     IN  IF FLt(FOf(72, 0), hours) THEN None
                         ELSE [timeframe |->
                                  IF ~FLt(FOf(6, 0), hours)
                                  THEN <<"Next", BigRound0(hours.m, hours.e),
                                         "hours">>
                                  ELSE IF ~FLt(FOf(24, 0), hours)
                                  THEN <<"Next", BigRound0(hours.m, hours.e),
                                         "hours">>
                                  ELSE CHOOSE in_days \in
                                      {<<"Next",
                                         BigRound0(BigAdd(BigShl(days.m, 3),
                                                          BigShl(days.m, 1)),
                                                   days.e),
                                         "days">> :
                                          days \in {FDiv(hours, FOf(24, 0))}} :
                                      TRUE,
                               confidence |-> IF FLt(FOf(60, 0), decreased)
                                              THEN decreased ELSE FOf(60, 0),
                               severity |-> first.predicted_severity,
                               primary_watershed |-> first.watershed]
             IN  CHOOSE next_critical \in
                     {period(first) : first \in {critical_predictions[i]}} :
                     TRUE

(***************************************************************************)
(* PredictorAgent: the forecast of a batch, kept in prediction_history.    *)
(***************************************************************************)
\* timedelta(days=7), in hours
Week == 168

\* faulty variant: the data of a watershed ages with its position in the list
watersheds_forecast_by_position(watersheds, h, t) ==
    [i \in 1..Len(watersheds) |->
        predict_watershed_conditions(watersheds[i], h, t + 2 * i - 1)]

\* the list the loop over the watersheds builds, one entry per watershed
watersheds_forecast(watersheds, h, t) ==
    [i \in 1..Len(watersheds) |->
        predict_watershed_conditions(watersheds[i], h, t)]

\* the sum the loop accumulates: the confidence of each entry, 0.5 for an
\* entry without one
RECURSIVE total_confidence(_)
total_confidence(forecasts) ==
    IF Len(forecasts) = 0 THEN R(0)
    ELSE RAdd(total_confidence(SubSeq(forecasts, 1, Len(forecasts) - 1)),
              Get(forecasts[Len(forecasts)], "confidence", Q(1, 2)))

\* faulty variant: the mean taken without looking at the watershed count
overall_confidence_unguarded(total, watersheds) ==
    TrueDiv(total, R(Len(watersheds)))

\* the mean confidence, 0.0 without watersheds
overall_confidence(total, watersheds) ==
    IF Len(watersheds) > 0 THEN TrueDiv(total, R(Len(watersheds))) ELSE R(0)

\* the forecast dict generate_forecast(data, hours_ahead) builds at clock
\* reading t, or the {} of its except branch
generate_forecast(d, h, t) ==
    LET watersheds == Get(d, "watersheds", << >>)
        forecasts == watersheds_forecast(watersheds, h, t)
        overall == overall_confidence(total_confidence(forecasts), watersheds)
    IN  IF Raised(overall) THEN EmptyDict
        ELSE [generated_at |-> t,
              forecast_horizon_hours |-> h,
              watersheds_forecast |-> forecasts,
              overall_confidence |-> overall,
              methodology |-> "AI-Enhanced Ensemble Prediction"]

\* faulty variant: entries are kept for two weeks
retained_two_weeks(p, cutoff) == p.timestamp > cutoff - Week

\* the test an entry passes to stay in prediction_history
retained(p, cutoff) == p.timestamp > cutoff

\* prediction_history after a call that produced forecast f at reading t
stored(history, f, t) ==
    LET appended == Append(history, [timestamp |-> t, forecast |-> f,
                                     actual_conditions |-> None])
        cutoff == t - Week
        keep(p) == retained(p, cutoff)
    IN  SelectSeq(appended, keep)

(***************************************************************************)
(* EmergencyResponderAgent: the flash-flood assessment of a batch.         *)
(***************************************************************************)
\* a watershed rises very rapidly
rapid_rise(w) == RGt(Get(w, "trend_rate_cfs_per_hour", R(0)), R(200))

\* `flood_stage and current_flow > flood_stage * 0.8`: a flood stage of None
\* or 0 is false
near_capacity(w) ==
    LET stage == Get(w, "flood_stage_cfs", None)
    IN  /\ Truthy(stage)
        /\ RGt(Get(w, "current_streamflow_cfs", R(0)), RMul(stage, Q(8, 10)))

high_risk(w) == RGt(Get(w, "risk_score", R(0)), Q(85, 10))

\* the condition under which a watershed is appended to at_risk_areas
at_risk(w) ==
    (rapid_rise(w) /\ near_capacity(w)) \/ (high_risk(w) /\ rapid_rise(w))

\* faulty variant: the window of the watershed seen last, not the shortest
time_window_latest(trend_rate, time_window) ==
    IF RGt(trend_rate, R(500)) THEN 30
    ELSE IF RGt(trend_rate, R(300)) THEN 45
    ELSE time_window

\* the time window, in minutes, after a listed watershed of this trend rate
time_window_after(trend_rate, time_window) ==
    IF RGt(trend_rate, R(500)) THEN (IF 30 < time_window THEN 30 ELSE time_window)
    ELSE IF RGt(trend_rate, R(300))
    THEN (IF 45 < time_window THEN 45 ELSE time_window)
    ELSE time_window

\* the locals of the loop after its first k watersheds
RECURSIVE flash_loop(_, _)
flash_loop(watersheds, k) ==
    IF k = 0
    THEN [immediate_risk |-> FALSE, areas |-> << >>, time_window |-> 60]
    ELSE LET before == flash_loop(watersheds, k - 1)
             w == watersheds[k]
         IN  IF at_risk(w)
             THEN [immediate_risk |-> TRUE,
                   areas |-> Append(before.areas, Get(w, "name", "Unknown")),
                   time_window |->
                       time_window_after(Get(w, "trend_rate_cfs_per_hour", R(0)),
                                         before.time_window)]
             ELSE before

\* a comparison of the loop raises TypeError on this watershed
flash_raises(w) ==
    \/ ~IsNumber(Get(w, "trend_rate_cfs_per_hour", R(0)))
    \/ ~IsNumber(Get(w, "risk_score", R(0)))
    \/ /\ Truthy(Get(w, "flood_stage_cfs", None))
       /\ ~IsNumber(Get(w, "current_streamflow_cfs", R(0)))

\* _assess_flash_flood_risk(data)
assess_flash_flood_risk(d) ==
    LET watersheds == Get(d, "watersheds", << >>)
    IN  IF \E i \in 1..Len(watersheds) : flash_raises(watersheds[i])
        THEN [immediate_risk |-> FALSE, areas |-> << >>, time_window |-> 60]
        ELSE flash_loop(watersheds, Len(watersheds))

(***************************************************************************)
(* EmergencyResponderAgent: the log of the alerts sent.                    *)
(***************************************************************************)
\* the length notification_history may not exceed at the end of a call
HistoryLimit == 1000

\* the number of entries a cut keeps
HistoryKept == 500

\* the channels of a call that names none
DefaultChannels == <<"EAS", "Cell", "Social", "Radio">>

\* the entry a call appends
notification(alert, channels, t) ==
    [timestamp |-> t,
     alert_id |-> alert.id,
     severity |-> alert.severity,
     channels |-> IF channels = None THEN DefaultChannels ELSE channels]

\* faulty variant: a cut keeps the oldest entries
cut_oldest(history) == SubSeq(history, 1, HistoryKept)

\* notification_history[-500:]
cut(history) ==
    IF Len(history) <= HistoryKept THEN history
    ELSE SubSeq(history, Len(history) - HistoryKept + 1, Len(history))

\* notification_history at the end of a call that appends entry
notified(history, entry) ==
    LET appended == Append(history, entry)
    IN  IF Len(appended) > HistoryLimit THEN cut(appended) ELSE appended

(***************************************************************************)
(* The callers.                                                            *)
(***************************************************************************)
Callers == {"c1", "c2"}

NoResult == [status |-> "none"]

\* no call of the scoring tool is pending
ScoreIdle ==
    /\ m = [c \in Callers |-> Defaults]
    /\ res = [c \in Callers |-> NoResult]

\* no watershed forecast is pending
ForecastIdle ==
    /\ watershed = << >>
    /\ hours_ahead = [c \in Callers |-> 0]
    /\ now = [c \in Callers |-> 0]
    /\ pred = [c \in Callers |-> NoResult]

\* no critical-period estimate is pending
CriticalIdle ==
    /\ data = << >>
    /\ critical = [c \in Callers |-> NoResult]

\* the predictor agent as constructed, no forecast requested
AgentIdle ==
    /\ forecast = [c \in Callers |-> NoResult]
    /\ prediction_history = << >>
    /\ wallclock = 0
    /\ calls = 0

\* no call of calculate_risk_level is pending
GaugeIdle ==
    /\ gauge = [c \in Callers |-> << >>]
    /\ gauge_risk = [c \in Callers |-> NoResult]

\* no flash-flood assessment is pending
FlashIdle ==
    /\ flash_data = [c \in Callers |-> << >>]
    /\ flash = [c \in Callers |-> NoResult]

\* the emergency responder as constructed, no alert sent
AlertIdle ==
    /\ notification_history = << >>
    /\ sent = [c \in Callers |-> NoResult]
    /\ sends = 0

\* everything outside the scoring tool and the watershed forecasts is idle
RestIdle == AgentIdle /\ GaugeIdle /\ FlashIdle /\ AlertIdle

Init ==
    /\ \E m1 \in Measurements : \E m2 \in Variants(m1) :
          m = [c \in Callers |-> IF c = "c1" THEN m1 ELSE m2]
    /\ res = [c \in Callers |-> NoResult]
    /\ ForecastIdle /\ CriticalIdle /\ RestIdle

\* caller c invokes the tool with its keyword arguments and receives the result
Call(c) ==
    /\ res[c].status = "none"
    /\ res' = [res EXCEPT ![c] = calculate_risk_score(Bind(m[c]))]
    /\ UNCHANGED <<m, watershed, hours_ahead, now, pred, data, critical,
                   agentVars, gaugeVars, flashVars, alertVars>>

Next == \E c \in Callers : Call(c)

Spec == Init /\ [][Next]_vars

(***************************************************************************)
(* Calls that leave arguments out.  Caller c1 passes only the fields of a  *)
(* set chosen freely; caller c2 passes every field, those c1 left out      *)
(* taken from a baseline.                                                  *)
(***************************************************************************)
\* values c2 may pass for the fields c1 leaves out
Baselines ==
    {Measurement(R(0), R(0), R(100), R(0), R(0), R(0), R(0), R(0), R(20), R(0)),
     Measurement(R(0), R(0), R(100), R(5), R(1000), R(0), R(0), R(0), R(20), R(0))}

\* kwargs with every field it lacks passed explicitly, taken from baseline
Fill(kwargs, baseline) ==
    [f \in Fields |-> IF f \in DOMAIN kwargs THEN kwargs[f] ELSE baseline[f]]

Profiles == {Zero, Saturated, Severe}

InitDefaults ==
    /\ \E p \in Profiles : \E S \in SUBSET Fields :
         \E b \in Baselines :
          m = [c \in Callers |->
                 IF c = "c1" THEN [f \in S |-> p[f]]
                 ELSE Fill([f \in S |-> p[f]], b)]
    /\ res = [c \in Callers |-> NoResult]
    /\ ForecastIdle /\ CriticalIdle /\ RestIdle

SpecDefaults == InitDefaults /\ [][Next]_vars

(***************************************************************************)
(* Forecasts of one watershed.  Both callers forecast the same watershed,  *)
(* each over its own horizon; a call reads the clock when it runs.         *)
(***************************************************************************)
MaxClock == 3

\* the readings of datetime.now(timezone.utc), in hours
Clock == 1..MaxClock

Horizons == {0, 24, 25, 72}

\* the values of last_updated: "", a text that is no ISO timestamp, an ISO
\* timestamp without offset, and ISO timestamps with offset (of hour 0, and
\* of an hour the clock has not reached)
LastUpdated ==
    {[kind |-> "empty", hour |-> 0], [kind |-> "malformed", hour |-> 0],
     [kind |-> "naive", hour |-> 0], [kind |-> "aware", hour |-> 0],
     [kind |-> "aware", hour |-> MaxClock + 2]}

WatershedKeys ==
    {"current_streamflow_cfs", "risk_score", "trend_rate_cfs_per_hour",
     "flood_stage_cfs", "last_updated"}

\* the dicts holding any of the keys, a flood_stage_cfs of None included
Watersheds ==
    {[k \in K |-> full[k]] :
        K \in SUBSET WatershedKeys,
        full \in [current_streamflow_cfs : {R(100), R(1000)},
                  risk_score : {R(0), R(5), R(10)},
                  trend_rate_cfs_per_hour : {R(0), R(-50), R(150)},
                  flood_stage_cfs : {R(0), R(1000), None},
                  last_updated : LastUpdated]}

InitForecast ==
    /\ watershed \in Watersheds
    /\ hours_ahead \in [Callers -> Horizons]
    /\ now = [c \in Callers |-> 0]
    /\ pred = [c \in Callers |-> NoResult]
    /\ ScoreIdle /\ CriticalIdle /\ RestIdle

\* caller c forecasts the watershed over its horizon
Predict(c) ==
    /\ pred[c] = NoResult
    /\ \E clock \in Clock :
          /\ now' = [now EXCEPT ![c] = clock]
          /\ pred' = [pred EXCEPT ![c] =
                        predict_watershed_conditions(watershed, hours_ahead[c], clock)]
    /\ UNCHANGED <<m, res, watershed, hours_ahead, data, critical,
                   agentVars, gaugeVars, flashVars, alertVars>>

NextForecast == \E c \in Callers : Predict(c)

SpecForecast == InitForecast /\ [][NextForecast]_vars

\* caller c has a forecast
Predicted(c) == pred[c] # NoResult /\ pred[c] # EmptyDict

(***************************************************************************)
(* Critical-period estimates of a batch of watersheds.                     *)
(***************************************************************************)
MaxWatersheds == 2

Names == <<"Eno River", "Neuse River", "Haw River", "Tar River">>

\* watersheds with any of the two keys the estimate reads
CriticalWatersheds ==
    {[k \in K |-> full[k]] :
        K \in SUBSET {"trend_rate_cfs_per_hour", "risk_score"},
        full \in [trend_rate_cfs_per_hour : {R(50), R(60), R(100), R(150)},
                  risk_score : {R(5), R(6), R(9)}]}

\* the batches of at most MaxWatersheds watersheds, each named or not, and
\* the data without the key 'watersheds'
Batches ==
    {<< >>} \cup
    UNION {{[watersheds |->
               [i \in 1..n |-> IF i \in S THEN b[i] @@ ("name" :> Names[i])
                                ELSE b[i]]] :
              b \in [1..n -> CriticalWatersheds], S \in SUBSET (1..n)} :
           n \in 0..MaxWatersheds}

InitCritical ==
    /\ data \in Batches
    /\ critical = [c \in Callers |-> NoResult]
    /\ ScoreIdle /\ ForecastIdle /\ RestIdle

\* caller c asks for the next critical period of the batch
Estimate(c) ==
    /\ critical[c] = NoResult
    /\ critical' = [critical EXCEPT ![c] = predict_next_critical_period(data)]
    /\ UNCHANGED <<m, res, watershed, hours_ahead, now, pred, data,
                   agentVars, gaugeVars, flashVars, alertVars>>

NextCritical == \E c \in Callers : Estimate(c)

SpecCritical == InitCritical /\ [][NextCritical]_vars

\* caller c has its answer
Estimated(c) == critical[c] # NoResult

(***************************************************************************)
(* Critical-period estimates of watersheds whose readings lie at, or a few *)
(* binary64 numbers away from, the thresholds of the estimate.             *)
(***************************************************************************)
MaxUlps == 2

\* risk scores from 5 upwards, up to 8.5, and 6 and 9
EdgeRisks ==
    {FStep(FOf(5, 0), k) : k \in 0..MaxUlps} \cup
    {FStep(FOf(17, -1), -k) : k \in 0..MaxUlps} \cup
    {FOf(6, 0), FOf(9, 0)}

\* trend rates from 50 and from 100 upwards, and a torrent
EdgeTrends ==
    {FStep(FOf(50, 0), k) : k \in 0..MaxUlps} \cup
    {FStep(FOf(100, 0), k) : k \in 0..MaxUlps} \cup
    {FOf(1000000, 0)}

\* the batches of one named watershed, the empty batch and the data without
\* the key 'watersheds'
EdgeBatches ==
    {<< >>, [watersheds |-> << >>]} \cup
    {[watersheds |-> <<[name |-> Names[1], trend_rate_cfs_per_hour |-> t,
                        risk_score |-> r]>>] :
        t \in EdgeTrends, r \in EdgeRisks}

InitCriticalEdge ==
    /\ data \in EdgeBatches
    /\ critical = [c \in Callers |-> NoResult]
    /\ ScoreIdle /\ ForecastIdle /\ RestIdle

\* caller c asks for the next critical period of the batch
EstimateEdge(c) ==
    /\ critical[c] = NoResult
    /\ critical' =
          [critical EXCEPT ![c] = predict_next_critical_period_binary64(data)]
    /\ UNCHANGED <<m, res, watershed, hours_ahead, now, pred, data,
                   agentVars, gaugeVars, flashVars, alertVars>>

NextCriticalEdge == \E c \in Callers : EstimateEdge(c)

SpecCriticalEdge == InitCriticalEdge /\ [][NextCriticalEdge]_vars

(***************************************************************************)
(* Forecasts of a batch.  The callers share one agent and one batch; each  *)
(* call reads the clock, which never runs backwards, and leaves its        *)
(* forecast in prediction_history.  generate_forecast never suspends       *)
(* between its first and its last statement (the coroutine it awaits has   *)
(* no await of its own), so a call is one step.                            *)
(***************************************************************************)
MaxCalls == 3

MaxTicks == 3

MaxBatch == 2

\* the clock readings: half-week steps
Times == {k * (Week \div 2) : k \in 0..MaxTicks}

\* a watershed with no key, one whose flood stage is None (its prediction
\* raises), a rising one updated at hour 0, a steady one with a bad timestamp
ForecastWatersheds ==
    {<< >>,
     [flood_stage_cfs |-> None],
     [name |-> "Eno River", current_streamflow_cfs |-> R(100),
      trend_rate_cfs_per_hour |-> R(150), flood_stage_cfs |-> R(1000),
      risk_score |-> R(5), last_updated |-> [kind |-> "aware", hour |-> 0]],
     [name |-> "Haw River", current_streamflow_cfs |-> R(1000),
      trend_rate_cfs_per_hour |-> R(0),
      last_updated |-> [kind |-> "malformed", hour |-> 0]]}

\* the data of a call: without the key 'watersheds', or with a list of at
\* most MaxBatch watersheds
ForecastData ==
    {<< >>} \cup
    UNION {{[watersheds |-> b] : b \in [1..n -> ForecastWatersheds]} :
           n \in 0..MaxBatch}

InitAgent ==
    /\ data \in ForecastData
    /\ hours_ahead \in [Callers -> {24, 72}]
    /\ forecast = [c \in Callers |-> NoResult]
    /\ prediction_history = << >>
    /\ wallclock = 0
    /\ calls = 0
    /\ watershed = << >>
    /\ now = [c \in Callers |-> 0]
    /\ pred = [c \in Callers |-> NoResult]
    /\ critical = [c \in Callers |-> NoResult]
    /\ ScoreIdle /\ GaugeIdle /\ FlashIdle /\ AlertIdle

\* caller c requests a forecast of the batch over its horizon
GenerateForecast(c) ==
    /\ calls < MaxCalls
    /\ \E t \in Times :
          /\ t >= wallclock
          /\ wallclock' = t
          /\ LET f == generate_forecast(data, hours_ahead[c], t)
             IN  /\ forecast' = [forecast EXCEPT ![c] = f]
                 /\ prediction_history' =
                       IF f = EmptyDict THEN prediction_history
                       ELSE stored(prediction_history, f, t)
    /\ calls' = calls + 1
    /\ UNCHANGED <<m, res, watershed, hours_ahead, now, pred, data, critical,
                   gaugeVars, flashVars, alertVars>>

NextAgent == \E c \in Callers : GenerateForecast(c)

SpecAgent == InitAgent /\ [][NextAgent]_vars

\* caller c holds the forecast of its latest call
Forecasted(c) == forecast[c] # NoResult /\ forecast[c] # EmptyDict

(***************************************************************************)
(* Gauge readings.  Each caller grades one reading: a streamflow and, where *)
(* the gauge has one on record, a flood stage.                             *)
(***************************************************************************)
\* streamflows in cfs, on both sides of every breakpoint of the grading
Flows ==
    {0, 100, 400, 500, 501, 799, 800, 1000, 1001, 1599, 1600, 2000, 4000,
     7999, 8000, 9999, 10000, 20000, 50000}

\* flood stages in cfs; None where the caller passes none
FloodStages == {None, R(0), R(1000), R(2000), R(10000)}

\* the arguments of one call; flood_stage_cfs may be left out
Readings ==
    {[streamflow_cfs |-> R(f)] : f \in Flows} \cup
    {[streamflow_cfs |-> R(f), flood_stage_cfs |-> s] :
        f \in Flows, s \in FloodStages}

InitGauge ==
    /\ gauge \in [Callers -> Readings]
    /\ gauge_risk = [c \in Callers |-> NoResult]
    /\ ScoreIdle /\ ForecastIdle /\ CriticalIdle
    /\ AgentIdle /\ FlashIdle /\ AlertIdle

\* caller c grades its reading
Grade(c) ==
    /\ gauge_risk' =
          [gauge_risk EXCEPT
              ![c] = calculate_risk_level(gauge[c].streamflow_cfs,
                                          Get(gauge[c], "flood_stage_cfs", None))]
    /\ UNCHANGED <<m, res, watershed, hours_ahead, now, pred, data, critical,
                   agentVars, gauge, flashVars, alertVars>>

NextGauge == \E c \in Callers : Grade(c)

SpecGauge == InitGauge /\ [][NextGauge]_vars

\* caller c holds the grade of its reading
Graded(c) == gauge_risk[c] # NoResult

(***************************************************************************)
(* Flash-flood assessments.  Caller c1 assesses a batch, caller c2 the     *)
(* same watersheds in an order of its own.                                 *)
(***************************************************************************)
MaxAreas == 2

\* trend rates on both sides of each threshold, a gauge without flood stage,
\* with a flood stage of None or 0, and at and above 80% of its flood stage
FlashWatersheds ==
    {<< >>,
     [trend_rate_cfs_per_hour |-> R(501), risk_score |-> R(9),
      current_streamflow_cfs |-> R(900), flood_stage_cfs |-> None]} \cup
    {[trend_rate_cfs_per_hour |-> R(t), risk_score |-> Q(85, 10),
      current_streamflow_cfs |-> R(g[1]), flood_stage_cfs |-> R(g[2])] :
        t \in {200, 201, 300, 301, 500, 501},
        g \in {<<900, 0>>, <<800, 1000>>, <<801, 1000>>}} \cup
    {[trend_rate_cfs_per_hour |-> R(t), risk_score |-> r] :
        t \in {200, 201, 300, 301, 500, 501}, r \in {Q(85, 10), R(9)}}

\* the batches of at most MaxAreas watersheds, each named or not, and the
\* data without the key 'watersheds'
FlashBatches ==
    {<< >>} \cup
    UNION {{[watersheds |->
               [i \in 1..n |-> IF i \in S THEN b[i] @@ ("name" :> Names[i])
                                ELSE b[i]]] :
              b \in [1..n -> FlashWatersheds], S \in SUBSET (1..n)} :
           n \in 0..MaxAreas}

\* the watersheds of d in the order p
Reordered(d, p) ==
    IF "watersheds" \in DOMAIN d
    THEN [watersheds |-> [i \in 1..Len(d.watersheds) |-> d.watersheds[p[i]]]]
    ELSE d

InitFlash ==
    /\ \E d \in FlashBatches :
          \E p \in Permutations(1..Len(Get(d, "watersheds", << >>))) :
             flash_data = [c \in Callers |->
                              IF c = "c1" THEN d ELSE Reordered(d, p)]
    /\ flash = [c \in Callers |-> NoResult]
    /\ ScoreIdle /\ ForecastIdle /\ CriticalIdle
    /\ AgentIdle /\ GaugeIdle /\ AlertIdle

\* caller c assesses its batch
AssessFlash(c) ==
    /\ flash' = [flash EXCEPT ![c] = assess_flash_flood_risk(flash_data[c])]
    /\ UNCHANGED <<m, res, watershed, hours_ahead, now, pred, data, critical,
                   agentVars, gaugeVars, flash_data, alertVars>>

NextFlash == \E c \in Callers : AssessFlash(c)

SpecFlash == InitFlash /\ [][NextFlash]_vars

\* caller c holds the assessment of its batch
Assessed(c) == flash[c] # NoResult

(***************************************************************************)
(* Emergency alerts.  The callers share one responder; it has sent a       *)
(* number of alerts before, and each call logs one more.  A call never     *)
(* suspends (it awaits nothing), so it is one step.                        *)
(***************************************************************************)
MaxSends == 3

\* the number of alerts sent before: none, and enough to be one or two calls
\* away from the limit, at it, or at what a cut keeps
SentBefore == {0, HistoryKept - 1, HistoryLimit - 1, HistoryLimit}

\* the alerts of the calls; ids are numbers, those of the earlier alerts
\* 1, 2, ...
Alerts ==
    {[id |-> 2001, severity |-> "critical", title |-> "Flash flood"],
     [id |-> 2002, severity |-> "warning", title |-> "River rising"]}

\* the channels argument: left out, or a list
ChannelLists == {None, <<"Cell", "Radio">>}

\* the log after n alerts sent through the default channels, one per tick
Logged(n) ==
    [i \in 1..n |->
        notification([id |-> i, severity |-> "warning"], None, i)]

InitAlert ==
    /\ \E n \in SentBefore : notification_history = Logged(n)
    /\ sent = [c \in Callers |-> NoResult]
    /\ sends = 0
    /\ ScoreIdle /\ ForecastIdle /\ CriticalIdle
    /\ AgentIdle /\ GaugeIdle /\ FlashIdle

\* caller c sends an alert; the clock has ticked since the last entry
SendEmergencyAlert(c) ==
    /\ sends < MaxSends
    /\ \E alert \in Alerts, channels \in ChannelLists :
          LET t == IF notification_history = << >> THEN 1
                   ELSE notification_history[Len(notification_history)].timestamp
                          + 1
          IN  /\ notification_history' =
                    notified(notification_history,
                             notification(alert, channels, t))
              /\ sent' = [sent EXCEPT ![c] = [call |-> sends + 1,
                                              alert |-> alert,
                                              returned |-> TRUE]]
    /\ sends' = sends + 1
    /\ UNCHANGED <<m, res, watershed, hours_ahead, now, pred, data, critical,
                   agentVars, gaugeVars, flashVars>>

NextAlert == \E c \in Callers : SendEmergencyAlert(c)

SpecAlert == InitAlert /\ [][NextAlert]_vars

Returned(c) == res[c].status # "none"

Succeeded(c) == res[c].status = "success"

LevelRank(level) ==
    CASE level = "Very Low" -> 0
      [] level = "Low" -> 1
      [] level = "Moderate" -> 2
      [] level = "High" -> 3
      [] level = "Critical" -> 4
      [] level = "Extreme" -> 5

(***************************************************************************)
(* Claims about calculate_risk_score.                                      *)
(***************************************************************************)

\* C1: for every measurement whose fields are all non-negative, the overall
\* risk score (likelihood + severity), as computed and as returned, lies in
\* [0, 100].
C1_OverallScoreBounded ==
    \A c \in Callers :
        Succeeded(c) =>
            /\ RGe(total_score(m[c]), R(0)) /\ RLe(total_score(m[c]), R(100))
            /\ RGe(res[c].overall_risk_score, R(0))
            /\ RLe(res[c].overall_risk_score, R(100))

\* the saturated measurement has been scored, and its score is the maximum
C1_Witness ==
    \E c \in Callers :
        /\ Succeeded(c)
        /\ m[c] = Saturated
        /\ res[c].overall_risk_score = R(100)

\* C2: the risk level is the step function of the total score with the
\* breakpoints 20/35/50/65/80, each breakpoint belonging to the higher level,
\* and of two scored measurements the one with the lower total never has the
\* higher level.
C2_LevelStepFunction ==
    /\ \A c \in Callers :
          Succeeded(c) =>
              LET s == total_score(m[c])
                  l == res[c].risk_level
              IN  /\ (l = "Extreme") <=> RGe(s, R(80))
                  /\ (l = "Critical") <=> (RGe(s, R(65)) /\ RLt(s, R(80)))
                  /\ (l = "High") <=> (RGe(s, R(50)) /\ RLt(s, R(65)))
                  /\ (l = "Moderate") <=> (RGe(s, R(35)) /\ RLt(s, R(50)))
                  /\ (l = "Low") <=> (RGe(s, R(20)) /\ RLt(s, R(35)))
                  /\ (l = "Very Low") <=> RLt(s, R(20))
    /\ \A c1 \in Callers : \A c2 \in Callers :
          (Succeeded(c1) /\ Succeeded(c2)
             /\ RLe(total_score(m[c1]), total_score(m[c2])))
            => LevelRank(res[c1].risk_level) <= LevelRank(res[c2].risk_level)

\* one call scored exactly 80 and is Extreme, the other scored less and is
\* Critical
C2_Witness ==
    \E c1 \in Callers : \E c2 \in Callers :
        /\ Succeeded(c1) /\ Succeeded(c2)
        /\ total_score(m[c1]) = R(80) /\ res[c1].risk_level = "Extreme"
        /\ RLt(total_score(m[c2]), R(80)) /\ res[c2].risk_level = "Critical"

C4_ImmediateRiskIff ==
    \A c \in Callers :
        Succeeded(c) =>
            /\ (res[c].immediate_risk = "High") <=>
                  \/ RGt(m[c].current_rainfall_mm, R(50))
                  \/ RGt(m[c].weather_alerts, R(0))
                  \/ /\ RGt(m[c].flood_stage_ft, R(0))
                     /\ RGe(RMul(m[c].river_stage_ft, R(10)),
                            RMul(m[c].flood_stage_ft, R(9)))
            /\ res[c].immediate_risk \in {"High", "Low"}
            /\ m[c] = [Zero EXCEPT !.current_rainfall_mm = R(51)]
                 => res[c].immediate_risk = "High"

\* rainfall 51 alone raised the flag, rainfall 50 alone did not
C4_Witness ==
    \E c1 \in Callers : \E c2 \in Callers :
        /\ Succeeded(c1) /\ Succeeded(c2)
        /\ m[c1] = [Zero EXCEPT !.current_rainfall_mm = R(51)]
        /\ res[c1].immediate_risk = "High"
        /\ m[c2] = [Zero EXCEPT !.current_rainfall_mm = R(50)]
        /\ res[c2].immediate_risk = "Low"

\* C5: two measurements that agree on current_rainfall_mm, weather_alerts,
\* river_stage_ft and flood_stage_ft get the same immediate_risk, whatever
\* their other fields, overall score and risk level are.
C5_ImmediateRiskIndependent ==
    \A c1 \in Callers : \A c2 \in Callers :
        (Succeeded(c1) /\ Succeeded(c2)
           /\ \A f \in Fields \ ContextFields : m[c1][f] = m[c2][f])
          => res[c1].immediate_risk = res[c2].immediate_risk

\* the two calls agree on the four fields, one is Extreme and the other is
\* not, and neither raised the flag
C5_Witness ==
    \E c1 \in Callers : \E c2 \in Callers :
        /\ Succeeded(c1) /\ Succeeded(c2)
        /\ \A f \in Fields \ ContextFields : m[c1][f] = m[c2][f]
        /\ res[c1].risk_level = "Extreme"
        /\ res[c2].risk_level # "Extreme"
        /\ res[c1].immediate_risk = "Low"
        /\ res[c2].immediate_risk = "Low"

\* C6: the rainfall sub-score, as computed and as returned, is non-decreasing
\* in current_rainfall_mm with the forecast fixed, and in forecast_rainfall_mm
\* with the current rainfall fixed.
C6_RainfallMonotone ==
    \A c1 \in Callers : \A c2 \in Callers :
        (/\ Succeeded(c1) /\ Succeeded(c2)
         /\ \/ /\ m[c1].forecast_rainfall_mm = m[c2].forecast_rainfall_mm
               /\ RLe(m[c1].current_rainfall_mm, m[c2].current_rainfall_mm)
            \/ /\ m[c1].current_rainfall_mm = m[c2].current_rainfall_mm
               /\ RLe(m[c1].forecast_rainfall_mm, m[c2].forecast_rainfall_mm))
          => /\ RLe(rainfall_score(m[c1]), rainfall_score(m[c2]))
             /\ RLe(res[c1].component_scores.likelihood.rainfall,
                    res[c2].component_scores.likelihood.rainfall)

\* two calls with the same forecast, one with a rainfall total on the linear
\* segment and one with more rain, on or above the 25 mm breakpoint
C6_Witness ==
    \E c1 \in Callers : \E c2 \in Callers :
        /\ Succeeded(c1) /\ Succeeded(c2)
        /\ m[c1].forecast_rainfall_mm = m[c2].forecast_rainfall_mm
        /\ RLt(m[c1].current_rainfall_mm, m[c2].current_rainfall_mm)
        /\ RGt(total_rainfall(m[c1]), R(20)) /\ RLt(total_rainfall(m[c1]), R(25))
        /\ RGe(total_rainfall(m[c2]), R(25))
        /\ RLt(res[c1].component_scores.likelihood.rainfall,
               res[c2].component_scores.likelihood.rainfall)

\* C7: with both stages positive, a stage ratio of exactly 0.9 scores 12,
\* exactly 1.0 scores 15, exactly 0.8 scores 10, exactly 0.7 scores 7, and a
\* ratio below 0.7 scores min(7, ratio * 10).
C7_StageBreakpoints ==
    \A c \in Callers :
        (Succeeded(c) /\ RGt(m[c].river_stage_ft, R(0))
                      /\ RGt(m[c].flood_stage_ft, R(0)))
          => LET river == m[c].river_stage_ft
                 flood == m[c].flood_stage_ft
                 tenfold == TrueDiv(RMul(river, R(10)), flood)
                 score == res[c].component_scores.likelihood.river_stage
             IN  /\ RMul(river, R(10)) = RMul(flood, R(9)) => score = R(12)
                 /\ river = flood => score = R(15)
                 /\ RMul(river, R(10)) = RMul(flood, R(8)) => score = R(10)
                 /\ RMul(river, R(10)) = RMul(flood, R(7)) => score = R(7)
                 /\ RLt(tenfold, R(7))
                      => /\ stage_score(m[c]) = tenfold
                         /\ score = Round1(tenfold)

\* river_stage_ft 18 with flood_stage_ft 20 has been scored 12
C7_Witness ==
    \E c \in Callers :
        /\ Succeeded(c)
        /\ m[c].river_stage_ft = R(18)
        /\ m[c].flood_stage_ft = R(20)
        /\ res[c].component_scores.likelihood.river_stage = R(12)

\* C8: an elevation of exactly 50 scores 12, exactly 100 scores 8, exactly 150
\* scores 5, and any elevation below 50 scores 15.
C8_ElevationBreakpoints ==
    \A c \in Callers :
        Succeeded(c) =>
            LET score == res[c].component_scores.severity.elevation
            IN  /\ m[c].elevation_m = R(50) => score = R(12)
                /\ m[c].elevation_m = R(100) => score = R(8)
                /\ m[c].elevation_m = R(150) => score = R(5)
                /\ RLt(m[c].elevation_m, R(50)) => score = R(15)

\* an elevation of exactly 50 has been scored 12 and one of 49 has been
\* scored 15
C8_Witness ==
    \E c1 \in Callers : \E c2 \in Callers :
        /\ Succeeded(c1) /\ Succeeded(c2)
        /\ m[c1].elevation_m = R(50)
        /\ res[c1].component_scores.severity.elevation = R(12)
        /\ m[c2].elevation_m = R(49)
        /\ res[c2].component_scores.severity.elevation = R(15)

\* C9: the elevation sub-score is in inverse relationship with elevation: of
\* two scored measurements the one at the lower elevation never has the lower
\* elevation sub-score.
C9_ElevationInverse ==
    \A c1 \in Callers : \A c2 \in Callers :
        (Succeeded(c1) /\ Succeeded(c2)
           /\ RLe(m[c1].elevation_m, m[c2].elevation_m))
          => RGe(res[c1].component_scores.severity.elevation,
                 res[c2].component_scores.severity.elevation)

\* C10: the proximity sub-score is in inverse relationship with distance: of
\* two scored measurements the one nearer to the water never has the lower
\* proximity sub-score.
C10_ProximityInverse ==
    \A c1 \in Callers : \A c2 \in Callers :
        (Succeeded(c1) /\ Succeeded(c2)
           /\ RLe(m[c1].distance_to_water_km, m[c2].distance_to_water_km))
          => RGe(res[c1].component_scores.severity.proximity,
                 res[c2].component_scores.severity.proximity)

\* C11: every sub-score stays in its declared range (rainfall 0-20, river
\* stage 0-15, flow rate 0-10, alerts 0-5, elevation 0-15, proximity 0-15,
\* historical 0-10, population 0-10), the likelihood total and the severity
\* total lie in [0, 50], and each total is the plain sum of its four
\* sub-scores.
C11_SubScoreRanges ==
    \A c \in Callers :
        Succeeded(c) =>
            LET mm == Bind(m[c])
                l == res[c].component_scores.likelihood
                s == res[c].component_scores.severity
                In(x, hi) == RGe(x, R(0)) /\ RLe(x, R(hi))
            IN  /\ In(l.rainfall, 20) /\ In(rainfall_score(mm), 20)
                /\ In(l.river_stage, 15) /\ In(stage_score(mm), 15)
                /\ In(l.flow_rate, 10) /\ In(flow_score(mm), 10)
                /\ In(l.alerts, 5) /\ In(alert_score(mm), 5)
                /\ In(s.elevation, 15) /\ In(elevation_score(mm), 15)
                /\ In(s.proximity, 15) /\ In(proximity_score(mm), 15)
                /\ In(s.historical, 10) /\ In(historical_score(mm), 10)
                /\ In(s.population, 10) /\ In(population_score(mm), 10)
                /\ In(l.total, 50) /\ In(s.total, 50)
                /\ l.total = Round1(RAdd(RAdd(rainfall_score(mm), stage_score(mm)),
                                         RAdd(flow_score(mm), alert_score(mm))))
                /\ s.total = Round1(RAdd(RAdd(elevation_score(mm), proximity_score(mm)),
                                         RAdd(historical_score(mm), population_score(mm))))

\* a call whose likelihood total and severity total are both 50 has returned
C11_Witness ==
    \E c \in Callers :
        /\ Succeeded(c)
        /\ res[c].component_scores.likelihood.total = R(50)
        /\ res[c].component_scores.severity.total = R(50)
        /\ res[c].component_scores.likelihood.alerts = R(5)
        /\ res[c].component_scores.severity.historical = R(10)

\* C12: the measurement current_rainfall_mm 100, river_stage_ft 20,
\* flood_stage_ft 20, usgs_flow_cfs 60000, weather_alerts 2, elevation_m 30,
\* distance_to_water_km 0.3, population_density 3500, historical_events 5
\* yields rainfall 20, stage 15, flow 10, alerts 5 (likelihood 50), elevation
\* 15, proximity 15, historical 10, population 10 (severity 50), total 100 and
\* level Extreme.
C12_EndToEnd ==
    \A c \in Callers :
        (Returned(c) /\ Bind(m[c]) =
            [current_rainfall_mm |-> R(100), forecast_rainfall_mm |-> R(0),
             elevation_m |-> R(30), distance_to_water_km |-> Q(3, 10),
             population_density |-> R(3500), historical_events |-> R(5),
             usgs_flow_cfs |-> R(60000), river_stage_ft |-> R(20),
             flood_stage_ft |-> R(20), weather_alerts |-> R(2)])
          => /\ res[c].status = "success"
             /\ res[c].component_scores.likelihood =
                  [total |-> R(50), rainfall |-> R(20), river_stage |-> R(15),
                   flow_rate |-> R(10), alerts |-> R(5)]
             /\ res[c].component_scores.severity =
                  [total |-> R(50), elevation |-> R(15), proximity |-> R(15),
                   historical |-> R(10), population |-> R(10)]
             /\ res[c].overall_risk_score = R(100)
             /\ res[c].risk_level = "Extreme"

\* the scenario has been scored
C12_Witness ==
    \E c \in Callers :
        /\ Returned(c)
        /\ m[c].current_rainfall_mm = R(100) /\ m[c].river_stage_ft = R(20)
        /\ m[c].flood_stage_ft = R(20) /\ m[c].usgs_flow_cfs = R(60000)
        /\ m[c].weather_alerts = R(2) /\ m[c].elevation_m = R(30)
        /\ m[c].distance_to_water_km = Q(3, 10)
        /\ m[c].population_density = R(3500) /\ m[c].historical_events = R(5)
        /\ m[c].forecast_rainfall_mm = R(0)
        /\ res[c].risk_level = "Extreme"

\* C13 as stated: no field is required, and a call is scored exactly like the
\* call that passes, for every field left out, 0, or 100 for elevation_m, or
\* 20 for flood_stage_ft.
C13_ZeroBaseline ==
    /\ \A c \in Callers : Returned(c) => res[c].status = "success"
    /\ \A c1 \in Callers : \A c2 \in Callers :
          (Returned(c1) /\ Returned(c2) /\ m[c2] =
              Fill(m[c1], Measurement(R(0), R(0), R(100), R(0), R(0), R(0), R(0),
                                      R(0), R(20), R(0))))
            => res[c1] = res[c2]

\* C13 amended: no field is required, and a call is scored exactly like the
\* call that passes, for every field left out, 0, or 100 for elevation_m, 20
\* for flood_stage_ft, 5 for distance_to_water_km, 1000 for population_density.
C13_SignatureBaseline ==
    /\ \A c \in Callers : Returned(c) => res[c].status = "success"
    /\ \A c1 \in Callers : \A c2 \in Callers :
          (Returned(c1) /\ Returned(c2) /\ m[c2] =
              Fill(m[c1], Measurement(R(0), R(0), R(100), R(5), R(1000), R(0),
                                      R(0), R(0), R(20), R(0))))
            => res[c1] = res[c2]

\* a call that passed no field and a call that passed the whole baseline
\* have returned the same result
C13_Witness ==
    \E c1 \in Callers : \E c2 \in Callers :
        /\ Succeeded(c1) /\ Succeeded(c2)
        /\ DOMAIN m[c1] = {}
        /\ DOMAIN m[c2] = Fields
        /\ m[c2].distance_to_water_km = R(5) /\ m[c2].population_density = R(1000)
        /\ res[c1] = res[c2]
        /\ res[c1].component_scores.severity.proximity = Q(75, 10)
        /\ res[c1].component_scores.severity.population = R(5)

\* C14: for a watershed with trend_rate_cfs_per_hour = 0 the predicted flow
\* returned by _predict_watershed_conditions equals current_streamflow_cfs,
\* for every horizon hours_ahead >= 0.
C14_FlatTrendNoDrift ==
    \A c \in Callers :
        (Predicted(c) /\ Get(watershed, "trend_rate_cfs_per_hour", R(0)) = R(0))
          => pred[c].predicted_conditions.flow_cfs
               = Get(watershed, "current_streamflow_cfs", R(0))

\* a flat watershed with a positive flow has been forecast 72 hours ahead
C14_Witness ==
    \E c \in Callers :
        /\ Predicted(c)
        /\ "trend_rate_cfs_per_hour" \in DOMAIN watershed
        /\ watershed.trend_rate_cfs_per_hour = R(0)
        /\ hours_ahead[c] = 72
        /\ "current_streamflow_cfs" \in DOMAIN watershed
        /\ pred[c].predicted_conditions.flow_cfs = R(1000)

\* C15: for every watershed and every trend rate, the predicted flow at
\* hours_ahead = 0 equals current_streamflow_cfs exactly.
C15_ZeroHorizonIdentity ==
    \A c \in Callers :
        (Predicted(c) /\ hours_ahead[c] = 0)
          => pred[c].predicted_conditions.flow_cfs
               = Get(watershed, "current_streamflow_cfs", R(0))

\* a watershed with a rising trend has been forecast 0 hours ahead
C15_Witness ==
    \E c \in Callers :
        /\ Predicted(c)
        /\ hours_ahead[c] = 0
        /\ pred[c].prediction_factors.trend_rate = R(150)
        /\ pred[c].predicted_conditions.flow_cfs = R(100)

\* C16: for one watershed forecast twice with the same data age and trend
\* stability, over horizons h1 <= h2, confidence(h1) >= confidence(h2), and
\* the two differ only by the factor 0.8 that applies once the horizon
\* exceeds 24 hours.
C16_ConfidenceNonIncreasing ==
    \A c1 \in Callers : \A c2 \in Callers :
        (/\ Predicted(c1) /\ Predicted(c2)
         /\ pred[c1].prediction_factors.data_age_hours
              = pred[c2].prediction_factors.data_age_hours
         /\ pred[c1].prediction_factors.trend_stability
              = pred[c2].prediction_factors.trend_stability
         /\ hours_ahead[c1] <= hours_ahead[c2])
          => /\ RGe(pred[c1].confidence, pred[c2].confidence)
             /\ pred[c1].confidence # pred[c2].confidence
                  => /\ hours_ahead[c1] <= 24 /\ hours_ahead[c2] > 24
                     /\ pred[c2].confidence = RMul(pred[c1].confidence, Q(8, 10))
             /\ (hours_ahead[c1] <= 24 /\ hours_ahead[c2] > 24)
                  => pred[c1].confidence # pred[c2].confidence

\* the same watershed, at the same data age, has been forecast 24 and 25
\* hours ahead, and the second confidence is the lower one
C16_Witness ==
    \E c1 \in Callers : \E c2 \in Callers :
        /\ Predicted(c1) /\ Predicted(c2)
        /\ hours_ahead[c1] = 24 /\ hours_ahead[c2] = 25
        /\ pred[c1].prediction_factors.data_age_hours
             = pred[c2].prediction_factors.data_age_hours
        /\ RLt(pred[c2].confidence, pred[c1].confidence)

C18_NoEstimateWithoutCandidate ==
    \A c \in Callers :
        Estimated(c) =>
            LET watersheds == Get(data, "watersheds", << >>)
                both(w) ==
                    /\ RGt(Get(w, "trend_rate_cfs_per_hour", R(0)), R(50))
                    /\ RGt(Get(w, "risk_score", R(0)), R(5))
            IN  (\A i \in 1..Len(watersheds) : ~both(watersheds[i]))
                  => critical[c] = None

\* a batch in which one watershed has only the rising trend and another only
\* the high risk has been answered with None
C18_Witness ==
    \E c \in Callers :
        /\ Estimated(c)
        /\ "watersheds" \in DOMAIN data
        /\ Len(data.watersheds) = 2
        /\ \E i \in 1..2 : \E j \in 1..2 :
              /\ RGt(Get(data.watersheds[i], "trend_rate_cfs_per_hour", R(0)), R(50))
              /\ ~RGt(Get(data.watersheds[i], "risk_score", R(0)), R(5))
              /\ RGt(Get(data.watersheds[j], "risk_score", R(0)), R(5))
              /\ ~RGt(Get(data.watersheds[j], "trend_rate_cfs_per_hour", R(0)), R(50))
        /\ critical[c] = None

\* C19: when at least one watershed has trend_rate > 50 and risk > 5, the
\* estimate comes from a qualifying watershed with the least hours_to_critical
\* = max(1, (8.5 - risk) / (trend_rate / 100)): primary_watershed is its name,
\* severity is "high" iff its trend_rate > 100 and "moderate" otherwise,
\* confidence is max(60, 95 - 2 * hours_to_critical); the answer is None if
\* that least value exceeds 72 hours.
C19_EarliestCandidate ==
    \A c \in Callers :
        Estimated(c) =>
            LET watersheds == Get(data, "watersheds", << >>)
                trend(i) == Get(watersheds[i], "trend_rate_cfs_per_hour", R(0))
                risk(i) == Get(watersheds[i], "risk_score", R(0))
                cand == {i \in 1..Len(watersheds) :
                            RGt(trend(i), R(50)) /\ RGt(risk(i), R(5))}
                raw(i) == TrueDiv(RSub(Q(17, 2), risk(i)), TrueDiv(trend(i), R(100)))
                hours(i) == IF RGt(raw(i), R(1)) THEN raw(i) ELSE R(1)
                least == {i \in cand : \A j \in cand : RLe(hours(i), hours(j))}
                conf(i) == LET x == RSub(R(95), RMul(R(2), hours(i)))
                           IN  IF RGt(x, R(60)) THEN x ELSE R(60)
            IN  cand # {} =>
                  \E i \in least :
                     IF RGt(hours(i), R(72)) THEN critical[c] = None
                     ELSE /\ critical[c] # None
                          /\ critical[c].primary_watershed
                               = Get(watersheds[i], "name", "Unknown")
                          /\ critical[c].severity
                               = IF RGt(trend(i), R(100)) THEN "high" ELSE "moderate"
                          /\ critical[c].confidence = conf(i)

\* a batch whose second watershed turns critical before its first one has
\* been answered with the second watershed's estimate
C19_Witness ==
    \E c \in Callers :
        /\ Estimated(c)
        /\ "watersheds" \in DOMAIN data
        /\ Len(data.watersheds) = 2
        /\ data.watersheds[1] =
             [name |-> "Eno River", trend_rate_cfs_per_hour |-> R(60),
              risk_score |-> R(6)]
        /\ data.watersheds[2] =
             [name |-> "Neuse River", trend_rate_cfs_per_hour |-> R(150),
              risk_score |-> R(6)]
        /\ critical[c] # None
        /\ critical[c].primary_watershed = "Neuse River"
        /\ critical[c].severity = "high"
        /\ critical[c].confidence = Q(275, 3)

\* C20: for every watershed with current risk in [0, 10] and non-negative
\* current flow, any trend rate and any horizon, the predicted risk score of
\* the forecast satisfies 0 <= predicted_risk <= 10.
C20_PredictedRiskOnScale ==
    \A c \in Callers :
        (/\ Predicted(c)
         /\ RGe(Get(watershed, "risk_score", R(0)), R(0))
         /\ RLe(Get(watershed, "risk_score", R(0)), R(10))
         /\ RGe(Get(watershed, "current_streamflow_cfs", R(0)), R(0)))
          => /\ RGe(pred[c].predicted_conditions.risk_score, R(0))
             /\ RLe(pred[c].predicted_conditions.risk_score, R(10))

\* C21: when a watershed has no flood_stage_cfs the flood stage used is
\* twice the predicted flow: the flow ratio is 0.5 for a positive predicted
\* flow and 0 otherwise, so the predicted risk is min(10, 8 * ratio + 0.2 *
\* current risk) <= 4 + 0.2 * current risk, and no division by a non-positive
\* flood stage makes the call fail.
C21_DefaultStageHalfRatio ==
    \A c \in Callers :
        (pred[c] # NoResult /\ "flood_stage_cfs" \notin DOMAIN watershed) =>
            /\ pred[c] # EmptyDict
            /\ LET flow == pred[c].predicted_conditions.flow_cfs
                   risk == pred[c].current_conditions.risk_score
                   ratio == IF RGt(flow, R(0)) THEN Q(1, 2) ELSE R(0)
                   expected == RAdd(RMul(R(8), ratio), RMul(Q(1, 5), risk))
               IN  /\ pred[c].predicted_conditions.risk_score
                        = IF RGt(expected, R(10)) THEN R(10) ELSE expected
                   /\ RLe(pred[c].predicted_conditions.risk_score,
                          RAdd(R(4), RMul(Q(1, 5), risk)))

\* a watershed without flood stage, with a positive predicted flow and a
\* current risk of 10, has been forecast at risk 4 + 0.2 * 10
C21_Witness ==
    \E c \in Callers :
        /\ Predicted(c)
        /\ "flood_stage_cfs" \notin DOMAIN watershed
        /\ RGt(pred[c].predicted_conditions.flow_cfs, R(0))
        /\ pred[c].current_conditions.risk_score = R(10)
        /\ pred[c].predicted_conditions.risk_score = R(6)

\* C22: when the prediction of one watershed of a batch raises,
\* generate_forecast still returns, the failed watershed adds no entry to
\* watersheds_forecast and nothing to the confidence sum, and the entries of
\* the other watersheds are their forecasts, in order.
C22_FailureSkipped ==
    \A c \in Callers :
        forecast[c] # NoResult =>
            LET watersheds == Get(data, "watersheds", << >>)
                works(w) == ~("flood_stage_cfs" \in DOMAIN w
                                /\ w.flood_stage_cfs = None)
                peers == SelectSeq(watersheds, works)
                expected ==
                    [i \in 1..Len(peers) |->
                        predict_watershed_conditions(
                            peers[i], forecast[c].forecast_horizon_hours,
                            forecast[c].generated_at)]
            IN  /\ forecast[c] # EmptyDict
                /\ forecast[c].watersheds_forecast = expected
                /\ RMul(forecast[c].overall_confidence, R(Len(watersheds)))
                     = total_confidence(expected)

\* C23: with no watersheds at all (the key missing or the list empty)
\* generate_forecast returns a forecast with an empty watersheds_forecast
\* and overall_confidence 0.0; no division by the watershed count fails.
C23_NeutralWithoutWatersheds ==
    \A c \in Callers :
        (forecast[c] # NoResult /\ Len(Get(data, "watersheds", << >>)) = 0)
          => /\ forecast[c] # EmptyDict
             /\ Len(forecast[c].watersheds_forecast) = 0
             /\ forecast[c].overall_confidence = R(0)

\* a forecast has been returned for data without the key 'watersheds'
C23_Witness ==
    \E c \in Callers :
        /\ Forecasted(c)
        /\ "watersheds" \notin DOMAIN data
        /\ forecast[c].overall_confidence = R(0)
        /\ forecast[c].forecast_horizon_hours = 72

\* C24: a call of generate_forecast or of calculate_risk_score leaves the
\* state held by the agent unchanged, prediction_history in particular.
C24_SideEffectFree == [][prediction_history' = prediction_history]_vars

C29_HistoryWindow ==
    [][calls' # calls =>
         LET before == prediction_history
             after == prediction_history'
             n == Len(after)
         IN  \E c \in Callers :
                /\ forecast'[c] # NoResult /\ forecast'[c] # EmptyDict
                /\ n >= 1
                /\ after[n].forecast = forecast'[c]
                /\ after[n].timestamp = wallclock'
                /\ \A i \in 1..n : after[i].timestamp >= wallclock' - Week
                /\ \E f \in [1..(n - 1) -> 1..Len(before)] :
                      /\ \A i \in 1..(n - 1) : before[f[i]] = after[i]
                      /\ \A i \in 1..(n - 1) : \A j \in 1..(n - 1) :
                            i < j => f[i] < f[j]]_vars

\* after three calls the history holds the forecasts of the last two only:
\* the first one has left the window
C29_Witness ==
    /\ calls = 3
    /\ Len(prediction_history) = 2
    /\ prediction_history[1].timestamp < prediction_history[2].timestamp
    /\ prediction_history[2].timestamp = wallclock
    /\ RGt(prediction_history[2].forecast.overall_confidence, R(0))

(***************************************************************************)
(* Claims about the range of the critical-period estimate.                 *)
(***************************************************************************)
\* C26, as stated: every candidate has 1 <= hours_to_critical < 7, and a
\* batch with a candidate gets an estimate (no candidate is discarded as
\* more than 72 hours away) whose confidence is above 81 and whose timeframe
\* is in hours.
C26_ConfidenceAbove81 ==
    \A c \in Callers :
       Estimated(c) =>
          LET watersheds == Get(data, "watersheds", << >>)
              candidates == {i \in 1..Len(watersheds) :
                                qualifies_binary64(watersheds[i])}
          IN  /\ \A i \in candidates :
                    /\ ~FLt(hours_to_critical_binary64(watersheds[i]), FOf(1, 0))
                    /\ FLt(hours_to_critical_binary64(watersheds[i]), FOf(7, 0))
              /\ candidates # {} =>
                    /\ critical[c] # None
                    /\ FLt(FOf(81, 0), critical[c].confidence)
                    /\ critical[c].timeframe[3] = "hours"

\* C26, amended: every candidate has 1 <= hours_to_critical < 7, and a batch
\* with a candidate gets an estimate whose confidence is at least 81 (81.0
\* itself where the subtraction 95 - 2 * hours rounds up to it) and whose
\* timeframe is in hours.
C26_ConfidenceAtLeast81 ==
    \A c \in Callers :
       Estimated(c) =>
          LET watersheds == Get(data, "watersheds", << >>)
              candidates == {i \in 1..Len(watersheds) :
                                qualifies_binary64(watersheds[i])}
          IN  /\ \A i \in candidates :
                    /\ ~FLt(hours_to_critical_binary64(watersheds[i]), FOf(1, 0))
                    /\ FLt(hours_to_critical_binary64(watersheds[i]), FOf(7, 0))
              /\ candidates # {} =>
                    /\ critical[c] # None
                    /\ ~FLt(critical[c].confidence, FOf(81, 0))
                    /\ critical[c].timeframe[3] = "hours"

\* a watershed one binary64 number above both thresholds has been given a
\* critical period within 7 hours, with confidence 81.0
C26_Witness ==
    /\ Estimated("c1")
    /\ Len(Get(data, "watersheds", << >>)) = 1
    /\ data.watersheds[1].risk_score = FStep(FOf(5, 0), 1)
    /\ data.watersheds[1].trend_rate_cfs_per_hour = FStep(FOf(50, 0), 1)
    /\ critical["c1"] # None
    /\ critical["c1"].confidence = FOf(81, 0)
    /\ critical["c1"].timeframe = <<"Next", 7, "hours">>

(***************************************************************************)
(* Claims about calculate_risk_level.                                      *)
(***************************************************************************)
\* C27: whatever the flood stage (left out, zero or positive), the score of a
\* reading lies between 0 and 10, the level is "High" exactly when a positive
\* flood stage is reached, and of two readings with the same flood stage the
\* one with the larger streamflow never has the smaller score.
C27_GradeMonotone ==
    /\ \A c \in Callers :
          Graded(c) =>
             LET flow == gauge[c].streamflow_cfs
                 stage == Get(gauge[c], "flood_stage_cfs", None)
             IN  /\ RGe(gauge_risk[c][2], R(0))
                 /\ RLe(gauge_risk[c][2], R(10))
                 /\ gauge_risk[c][1] = "High" <=>
                       (stage # None /\ RGt(stage, R(0)) /\ RGe(flow, stage))
    /\ \A c1, c2 \in Callers :
          (/\ Graded(c1) /\ Graded(c2)
           /\ Get(gauge[c1], "flood_stage_cfs", None)
                 = Get(gauge[c2], "flood_stage_cfs", None)
           /\ RLe(gauge[c1].streamflow_cfs, gauge[c2].streamflow_cfs))
          => RLe(gauge_risk[c1][2], gauge_risk[c2][2])

(***************************************************************************)
(* Claims about _assess_flash_flood_risk.                                  *)
(***************************************************************************)
\* C28: immediate_risk is true exactly when areas is not empty; areas names,
\* in batch order, the watersheds whose trend rate exceeds 200 and that either
\* have a flood stage (one that is neither None nor 0) with the current flow
\* above 80% of it or have a risk score above 8.5; time_window is 30 if a
\* listed watershed has a trend rate above 500, else 45 if one has a trend
\* rate above 300, else 60; and two callers assessing the same watersheds in
\* different orders get the same immediate_risk, the same time_window and
\* the same set of areas.
C28_FlashAssessment ==
    /\ \A c \in Callers :
          Assessed(c) =>
             LET watersheds == Get(flash_data[c], "watersheds", << >>)
                 trend(w) == Get(w, "trend_rate_cfs_per_hour", R(0))
                 flow(w) == Get(w, "current_streamflow_cfs", R(0))
                 has_stage(w) ==
                     /\ "flood_stage_cfs" \in DOMAIN w
                     /\ w.flood_stage_cfs # None
                     /\ w.flood_stage_cfs # R(0)
                 listed(w) ==
                     /\ RGt(trend(w), R(200))
                     /\ \/ /\ has_stage(w)
                           /\ RGt(RMul(flow(w), R(10)),
                                  RMul(w.flood_stage_cfs, R(8)))
                        \/ RGt(RMul(Get(w, "risk_score", R(0)), R(2)), R(17))
                 shown == SelectSeq(watersheds, listed)
                 demanded(limit) ==
                     \E i \in 1..Len(shown) : RGt(trend(shown[i]), R(limit))
             IN  /\ flash[c].immediate_risk <=> flash[c].areas # << >>
                 /\ flash[c].areas =
                       [i \in 1..Len(shown) |-> Get(shown[i], "name", "Unknown")]
                 /\ flash[c].time_window \in {30, 45, 60}
                 /\ flash[c].time_window =
                       IF demanded(500) THEN 30
                       ELSE IF demanded(300) THEN 45
                       ELSE 60
    /\ \A c1, c2 \in Callers :
          Assessed(c1) /\ Assessed(c2) =>
             /\ flash[c1].immediate_risk = flash[c2].immediate_risk
             /\ flash[c1].time_window = flash[c2].time_window
             /\ {flash[c1].areas[i] : i \in 1..Len(flash[c1].areas)}
                   = {flash[c2].areas[i] : i \in 1..Len(flash[c2].areas)}

\* both watersheds of a batch are listed, the one rising by more than 500 cfs
\* an hour before the one rising by more than 300 for caller c1 and after it
\* for caller c2, and both callers have been given 30 minutes
C28_Witness ==
    /\ Assessed("c1") /\ Assessed("c2")
    /\ flash["c1"].areas = <<"Eno River", "Neuse River">>
    /\ flash["c2"].areas = <<"Neuse River", "Eno River">>
    /\ flash_data["c1"].watersheds[1].trend_rate_cfs_per_hour = R(501)
    /\ flash_data["c1"].watersheds[2].trend_rate_cfs_per_hour = R(301)
    /\ flash["c1"].time_window = 30
    /\ flash["c2"].time_window = 30
    /\ flash["c1"].immediate_risk

(***************************************************************************)
(* Claims about send_emergency_alert.                                      *)
(***************************************************************************)
\* C30: every call of send_emergency_alert returns true and leaves at most
\* 1000 entries in notification_history, the last of them the alert just
\* sent: the history is the one before with the new entry appended, cut to
\* its 500 most recent entries when the append made it longer than 1000.
C30_HistoryCut ==
    [][sends' # sends =>
         LET before == notification_history
             after == notification_history'
         IN  /\ Len(after) >= 1
             /\ Len(after) <= 1000
             /\ \E c \in Callers :
                   /\ sent'[c] # NoResult
                   /\ sent'[c].call = sends'
                   /\ sent'[c].returned = TRUE
                   /\ after[Len(after)].alert_id = sent'[c].alert.id
                   /\ after[Len(after)].severity = sent'[c].alert.severity
             /\ LET appended == Append(before, after[Len(after)])
                IN  IF Len(before) + 1 > 1000
                    THEN /\ Len(after) = 500
                         /\ \A i \in 1..500 : after[i] = appended[i + 501]
                    ELSE after = appended]_vars

\* the first call met 1000 entries: 500 are left, the oldest of them the
\* 502nd alert ever sent and the last the alert of the call
C30_Witness ==
    /\ sends = 1
    /\ sent["c1"] # NoResult
    /\ sent["c1"].returned
    /\ Len(notification_history) = 500
    /\ notification_history[1].alert_id = 502
    /\ notification_history[500].alert_id = sent["c1"].alert.id

=============================================================================
